---- MODULE Spec2Model ----
(***************************************************************************)
(* Model of the Google Docs -> Notion converter (DocsToNotionConverter).   *)
(*                                                                         *)
(* Strings are sequences of one-character strings, so that trim, prefix    *)
(* tests, concatenation and replacement are computed as JavaScript         *)
(* computes them.  A missing (undefined / null) string is the empty        *)
(* sequence: every place of the source that reads an optional string       *)
(* reads it through `||` or a truthiness test, which treat undefined and   *)
(* '' alike.                                                               *)
(***************************************************************************)
EXTENDS Integers, Sequences, FiniteSets, TLC

VARIABLES
    \* ---- segmentation harness (pure functions applied to drawn inputs)
    segBody,        \* the body handed to the segmenter
    segParent,      \* the parent label / tab title
    segCall,        \* which function was applied, with its other arguments
    segOut,         \* the Sections it returned
    \* ---- renderer harness (pure functions applied to drawn inputs)
    pureIn,         \* the drawn argument: Sections, a content string, a table or a text run
    pureCall,       \* which function was applied ("none" before the call)
    pureOut,        \* what it returned
    \* ---- configuration and Google API state
    clientId,       \* this.CLIENT_ID is set
    apiKey,         \* this.API_KEY is set
    initPc,         \* position of initializeGoogleAPI
    gapiClient,     \* gapi.client is loaded
    tokenClient,    \* this.tokenClient is initialised
    isSignedIn,     \* this.isSignedIn
    hasToken,       \* gapi.client.getToken() is non-null
    \* ---- one processDocument run
    sourceType,     \* "google-doc" | "drive-folder"
    urlValid,       \* the URL passes the validator of its source type
    pc,             \* position of the run (the await it is suspended at)
    variant,        \* index of the request variant / listing method / export URL to try next
    attempts,       \* document requests of the current ladder, in order (the error kind
                    \* of the latest one only: earlier errors are logged and dropped)
    events,         \* path entry, sign-in, listing calls and export fetches of the run,
                    \* in order
    fetched,        \* the document the single-document rich path segments
    docs,           \* folder listing
    docIdx,         \* batch loop index i (1-based)
    allSections,    \* Sections collected by the run
    origin,         \* for each collected Section, the index of the listed document it
                    \* was collected for (batch runs)
    pages,          \* rendered units
    files,          \* output files
    downloaded,     \* generateDownload was called
    status,         \* last status shown by the run: [type, msg]
    thrown          \* error caught by processDocument: [has, msg]

segVars == <<segBody, segParent, segCall, segOut>>
pureVars == <<pureIn, pureCall, pureOut>>
envVars == <<clientId, apiKey, initPc, gapiClient, tokenClient, isSignedIn, hasToken>>
runVars == <<sourceType, urlValid, pc, variant, attempts, events, fetched, docs,
             docIdx, allSections, origin, pages, files, downloaded, status, thrown>>
vars == <<segVars, pureVars, envVars, runVars>>

----------------------------------------------------------------------------
(* Strings *)

\* a string literal as its sequence of characters
Chars(str) == [i \in 1..Len(str) |-> SubSeq(str, i, i)]

WS == {" ", "\n", "\t"}

\* the positions of s
positions(s) == [i \in 1..Len(s) |-> i]

\* the characters of s at the positions idx, in order
keepAt(s, idx) == [k \in 1..Len(idx) |-> s[idx[k]]]

\* the positions of s that hold no white space
inkAt(s) == SelectSeq(positions(s), LAMBDA i : s[i] \notin WS)

trimStart(s) == IF inkAt(s) = <<>> THEN <<>> ELSE SubSeq(s, Head(inkAt(s)), Len(s))

trimEnd(s) == IF inkAt(s) = <<>> THEN <<>> ELSE SubSeq(s, 1, inkAt(s)[Len(inkAt(s))])

\* String.prototype.trim
trim(s) == trimEnd(trimStart(s))

\* String.prototype.startsWith
startsWith(s, p) == Len(s) >= Len(p) /\ SubSeq(s, 1, Len(p)) = p

\* String.prototype.repeat
repeat(s, n) ==
    IF n <= 0 THEN <<>> ELSE [i \in 1..(n * Len(s)) |-> s[((i - 1) % Len(s)) + 1]]

\* s occurs in t at position i
occursAt(s, t, i) == i + Len(s) - 1 <= Len(t) /\ SubSeq(t, i, i + Len(s) - 1) = s

\* String.prototype.includes
includes(t, s) == \E i \in 1..(Len(t) + 1) : occursAt(s, t, i)

\* String.prototype.replace with a string pattern: the first occurrence only
replaceFirst(t, s, r) ==
    IF ~includes(t, s) THEN t
    ELSE LET i == CHOOSE k \in 1..(Len(t) + 1) :
                      occursAt(s, t, k) /\ \A j \in 1..(k - 1) : ~occursAt(s, t, j)
         IN  SubSeq(t, 1, i - 1) \o r \o SubSeq(t, i + Len(s), Len(t))

NL == <<"\n">>
StrTab == Chars("Tab ")
StrDocumentSp == Chars("Document ")
StrDocument == Chars("Document")

\* decimal rendering of a small number inside a template literal
digit(n) == <<CASE n = 0 -> "0" [] n = 1 -> "1" [] n = 2 -> "2" [] n = 3 -> "3"
                [] n = 4 -> "4" [] n = 5 -> "5" [] n = 6 -> "6" [] n = 7 -> "7"
                [] n = 8 -> "8" [] OTHER -> "9">>
RECURSIVE numStr(_)
numStr(n) == IF n < 10 THEN digit(n) ELSE numStr(n \div 10) \o digit(n % 10)

----------------------------------------------------------------------------
(* Inline rendering *)

NoStyle == [bold |-> FALSE, italic |-> FALSE, underline |-> FALSE,
            strikethrough |-> FALSE, linkUrl |-> <<>>]

\* mutant: the link wrap is applied first, the bold wrap last
applyTextFormatting_LinkFirst(text, textStyle) ==
    LET f0 == IF textStyle.linkUrl # <<>>
              THEN <<"[">> \o text \o <<"]", "(">> \o textStyle.linkUrl \o <<")">>
              ELSE text
        f1 == IF textStyle.italic THEN <<"*">> \o f0 \o <<"*">> ELSE f0
        f2 == IF textStyle.underline
              THEN <<"<", "u", ">">> \o f1 \o <<"<", "/", "u", ">">> ELSE f1
        f3 == IF textStyle.strikethrough
              THEN <<"~", "~">> \o f2 \o <<"~", "~">> ELSE f2
    IN  IF textStyle.bold THEN <<"*", "*">> \o f3 \o <<"*", "*">> ELSE f3

applyTextFormatting(text, textStyle) ==
    LET f1 == IF textStyle.bold THEN <<"*", "*">> \o text \o <<"*", "*">> ELSE text
        f2 == IF textStyle.italic THEN <<"*">> \o f1 \o <<"*">> ELSE f1
        f3 == IF textStyle.underline
              THEN <<"<", "u", ">">> \o f2 \o <<"<", "/", "u", ">">> ELSE f2
        f4 == IF textStyle.strikethrough
              THEN <<"~", "~">> \o f3 \o <<"~", "~">> ELSE f3
    IN  IF textStyle.linkUrl # <<>>
        THEN <<"[">> \o f4 \o <<"]", "(">> \o textStyle.linkUrl \o <<")">>
        ELSE f4

NoBullet == [has |-> FALSE, ordered |-> FALSE, nestingLevel |-> 0]

getBulletInfo(paragraph) ==
    IF paragraph.bullet.has
    THEN IF paragraph.bullet.ordered
         THEN repeat(<<" ", " ">>, paragraph.bullet.nestingLevel) \o <<"1", ".", " ">>
         ELSE repeat(<<" ", " ">>, paragraph.bullet.nestingLevel) \o <<"-", " ">>
    ELSE <<>>

RECURSIVE extractTextFromRuns(_)
extractTextFromRuns(elements) ==
    IF elements = <<>> THEN <<>>
    ELSE Head(elements).content \o extractTextFromRuns(Tail(elements))

extractTextFromParagraph(paragraph) == extractTextFromRuns(paragraph.elements)

\* mutant: a run is formatted whether or not it has content
formatRun_NoGuard(textRun) == applyTextFormatting(textRun.content, textRun.textStyle)

\* the loop body of extractFormattedTextFromParagraph: what one run adds
formatRun(textRun) ==
    IF textRun.content # <<>>
    THEN applyTextFormatting(textRun.content, textRun.textStyle)
    ELSE <<>>

RECURSIVE formatRuns(_)
formatRuns(elements) ==
    IF elements = <<>> THEN <<>>
    ELSE formatRun(Head(elements)) \o formatRuns(Tail(elements))

extractFormattedTextFromParagraph(paragraph) ==
    getBulletInfo(paragraph) \o formatRuns(paragraph.elements)

getHeadingLevel(paragraph) ==
    CASE paragraph.namedStyleType = "HEADING_1" -> 1
      [] paragraph.namedStyleType = "HEADING_2" -> 2
      [] paragraph.namedStyleType = "HEADING_3" -> 3
      [] paragraph.namedStyleType = "HEADING_4" -> 4
      [] paragraph.namedStyleType = "HEADING_5" -> 5
      [] paragraph.namedStyleType = "HEADING_6" -> 6
      [] paragraph.namedStyleType = "TITLE" -> 1
      [] paragraph.namedStyleType = "SUBTITLE" -> 2
      [] OTHER -> 0

----------------------------------------------------------------------------
(* Tables *)

RECURSIVE cellText(_)
cellText(content) ==
    IF content = <<>> THEN <<>>
    ELSE extractTextFromParagraph(Head(content)) \o cellText(Tail(content))

RECURSIVE rowCells(_)
rowCells(cells) ==
    IF cells = <<>> THEN <<>>
    ELSE <<" ">> \o trim(cellText(Head(cells))) \o <<" ", "|">> \o rowCells(Tail(cells))

\* mutant: the separator row is one column short
tableSeparator_Short(n) == <<"|">> \o repeat(<<" ", "-", "-", "-", " ", "|">>, n - 1)

tableSeparator(n) == <<"|">> \o repeat(<<" ", "-", "-", "-", " ", "|">>, n)

\* mutant: a separator row follows every row
RECURSIVE tableRowsFrom_EveryRow(_, _)
tableRowsFrom_EveryRow(rows, i) ==
    IF i > Len(rows) THEN <<>>
    ELSE <<"|">> \o rowCells(rows[i]) \o NL
         \o tableSeparator(Len(rows[i])) \o NL
         \o tableRowsFrom_EveryRow(rows, i + 1)

RECURSIVE tableRowsFrom(_, _)
tableRowsFrom(rows, i) ==
    IF i > Len(rows) THEN <<>>
    ELSE <<"|">> \o rowCells(rows[i]) \o NL
         \o (IF i = 1 THEN tableSeparator(Len(rows[i])) \o NL ELSE <<>>)
         \o tableRowsFrom(rows, i + 1)

extractTableFromElement(table) == tableRowsFrom(table.tableRows, 1)

----------------------------------------------------------------------------
(* Section Segmenter and Tree Flattener *)

Section(title, content, level, parentTab) ==
    [title |-> title, content |-> content, level |-> level,
     parentTab |-> parentTab, sourceDocument |-> <<>>]

NoSection == Section(<<>>, <<>>, 0, <<>>)

\* the loop state of extractSectionsFromBody: sections, currentSection
\* (has = FALSE is null) and allContent
SegStart == [sections |-> <<>>, has |-> FALSE, cur |-> NoSection, allContent |-> <<>>]

\* mutant: the open section is dropped instead of pushed at a heading
startHeading_Drop(acc, formattedText, headingLevel, parentName) ==
    [sections   |-> acc.sections,
     has        |-> TRUE,
     cur        |-> Section(trim(formattedText), <<>>, headingLevel, parentName),
     allContent |-> acc.allContent \o formattedText \o NL]

\* mutant: the open section is pushed at a heading whatever its content
startHeading_PushAlways(acc, formattedText, headingLevel, parentName) ==
    [sections   |-> IF acc.has THEN Append(acc.sections, acc.cur) ELSE acc.sections,
     has        |-> TRUE,
     cur        |-> Section(trim(formattedText), <<>>, headingLevel, parentName),
     allContent |-> acc.allContent \o formattedText \o NL]

\* a heading paragraph: push the open section if it has content, open a new one
startHeading(acc, formattedText, headingLevel, parentName) ==
    [sections   |-> IF acc.has /\ trim(acc.cur.content) # <<>>
                    THEN Append(acc.sections, acc.cur)
                    ELSE acc.sections,
     has        |-> TRUE,
     cur        |-> Section(trim(formattedText), <<>>, headingLevel, parentName),
     allContent |-> acc.allContent \o formattedText \o NL]

\* mutant: `=` instead of `+=` on the open section's content
appendContent_Overwrite(acc, piece, parentName) ==
    IF acc.has
    THEN [acc EXCEPT !.cur.content = piece, !.allContent = @ \o piece]
    ELSE [acc EXCEPT !.has = TRUE,
                     !.cur = Section(parentName, piece, 1, parentName),
                     !.allContent = @ \o piece]

\* mutant: the default section is opened with level 0
appendContent_LevelZero(acc, piece, parentName) ==
    IF acc.has
    THEN [acc EXCEPT !.cur.content = @ \o piece, !.allContent = @ \o piece]
    ELSE [acc EXCEPT !.has = TRUE,
                     !.cur = Section(parentName, piece, 0, parentName),
                     !.allContent = @ \o piece]

\* mutant: the default section is opened empty
appendContent_Unseeded(acc, piece, parentName) ==
    IF acc.has
    THEN [acc EXCEPT !.cur.content = @ \o piece, !.allContent = @ \o piece]
    ELSE [acc EXCEPT !.has = TRUE,
                     !.cur = Section(parentName, <<>>, 1, parentName),
                     !.allContent = @ \o piece]

\* body text or a rendered table (piece already carries its trailing newlines):
\* extend the open section, or open the default one
appendContent(acc, piece, parentName) ==
    IF acc.has
    THEN [acc EXCEPT !.cur.content = @ \o piece, !.allContent = @ \o piece]
    ELSE [acc EXCEPT !.has = TRUE,
                     !.cur = Section(parentName, piece, 1, parentName),
                     !.allContent = @ \o piece]

\* mutant: a rendered table is followed by one newline only
tablePiece_OneNewline(tableMarkdown) == tableMarkdown \o NL

\* tableMarkdown + '\n\n'
tablePiece(tableMarkdown) == tableMarkdown \o NL \o NL

\* one iteration of the loop over body.content
segmentElement(acc, element, parentName) ==
    IF element.kind = "paragraph"
    THEN LET formattedText == extractFormattedTextFromParagraph(element.paragraph)
             headingLevel == getHeadingLevel(element.paragraph)
         IN  IF trim(formattedText) = <<>> THEN acc
             ELSE IF headingLevel > 0
             THEN startHeading(acc, formattedText, headingLevel, parentName)
             ELSE appendContent(acc, formattedText \o NL, parentName)
    ELSE IF element.kind = "table"
    THEN appendContent(acc, tablePiece(extractTableFromElement(element.table)), parentName)
    ELSE acc

RECURSIVE segmentLoop(_, _, _)
segmentLoop(acc, content, parentName) ==
    IF content = <<>> THEN acc
    ELSE segmentLoop(segmentElement(acc, Head(content), parentName), Tail(content), parentName)

\* mutant: the section still open at the end of the loop is forgotten
segmentFinal_Forget(acc) == acc.sections

\* "Add final section"
segmentFinal(acc) ==
    IF acc.has /\ trim(acc.cur.content) # <<>>
    THEN Append(acc.sections, acc.cur) ELSE acc.sections

\* mutant: the default section is created without testing allContent
segmentFallback_Always(sections, allContent, parentName) ==
    IF Len(sections) = 0
    THEN <<Section(parentName, trim(allContent), 1, parentName)>>
    ELSE sections

\* mutant: no default section is created after the loop
segmentFallback_Never(sections, allContent, parentName) == sections

\* "If no sections were created but we have content, create a default section"
segmentFallback(sections, allContent, parentName) ==
    IF Len(sections) = 0 /\ trim(allContent) # <<>>
    THEN <<Section(parentName, trim(allContent), 1, parentName)>>
    ELSE sections

\* mutant: no Section is renamed
segmentRename_Keep(sections, parentName) == sections

\* "If we only have one section and it's named after the tab, rename it"
segmentRename(sections, parentName) ==
    IF Len(sections) = 1 /\ sections[1].title = parentName /\ startsWith(parentName, StrTab)
    THEN LET meaningfulName == IF sections[1].sourceDocument # <<>>
                               THEN sections[1].sourceDocument
                               ELSE replaceFirst(parentName, StrTab, StrDocumentSp)
         IN  <<[sections[1] EXCEPT !.title = meaningfulName]>>
    ELSE sections

extractSectionsFromBody(body, parentName) ==
    IF ~body.has \/ ~body.hasContent THEN <<>>
    ELSE LET acc == segmentLoop(SegStart, body.content, parentName)
         IN  segmentRename(
                 segmentFallback(segmentFinal(acc), acc.allContent, parentName),
                 parentName)

\* tab.tabProperties?.title || `Tab ${tabIndex + 1}`  (tabIndex is 0-based)
tabTitleOf(tab, tabIndex) ==
    IF tab.title # <<>> THEN tab.title ELSE StrTab \o numStr(tabIndex + 1)

\* mutant: the tab title is used whatever it is
effectiveTabName_Own(tabTitle, documentTitle) == tabTitle

\* "For single-tab documents, use the document title instead of 'Tab 1'"
effectiveTabName(tabTitle, documentTitle) ==
    IF tabTitle = StrTab \o <<"1">> /\ documentTitle # <<>> THEN documentTitle ELSE tabTitle

extractSectionsFromTab(tab, tabIndex, documentTitle) ==
    LET tabTitle == tabTitleOf(tab, tabIndex)
    IN  IF tab.documentTab.has /\ tab.documentTab.body.has
        THEN extractSectionsFromBody(tab.documentTab.body,
                                     effectiveTabName(tabTitle, documentTitle))
        ELSE IF tab.body.has
        THEN extractSectionsFromBody(tab.body, effectiveTabName(tabTitle, documentTitle))
        ELSE <<>>

\* "Collect all tabs (main tabs + child tabs)"
\* mutant: child tabs are not collected
collectAllTabs_TopOnly(tabs) == tabs

RECURSIVE collectAllTabs(_)
collectAllTabs(tabs) ==
    IF tabs = <<>> THEN <<>>
    ELSE <<Head(tabs)>> \o Head(tabs).childTabs \o collectAllTabs(Tail(tabs))

RECURSIVE sectionsOfTabs(_, _, _)
sectionsOfTabs(allTabs, tabIndex, documentTitle) ==
    IF tabIndex >= Len(allTabs) THEN <<>>
    ELSE extractSectionsFromTab(allTabs[tabIndex + 1], tabIndex, documentTitle)
         \o sectionsOfTabs(allTabs, tabIndex + 1, documentTitle)

extractSectionsFromGoogleDoc(doc) ==
    IF Len(doc.tabs) > 0
    THEN sectionsOfTabs(collectAllTabs(doc.tabs), 0, doc.title)
    ELSE IF doc.body.has
    THEN extractSectionsFromBody(doc.body, IF doc.title # <<>> THEN doc.title ELSE StrDocument)
    ELSE <<>>

\* mutant: the Sections are returned without their source document
withSource_None(sections, name) == sections

\* "Add source document info to each section"
withSource(sections, name) ==
    [i \in 1..Len(sections) |-> [sections[i] EXCEPT !.sourceDocument = name]]

\* processDocumentById after the fetch: segment and stamp the source document
processDocumentById(doc, docId, docName) ==
    withSource(extractSectionsFromGoogleDoc(doc),
               IF docName # <<>> THEN docName
               ELSE IF doc.title # <<>> THEN doc.title
               ELSE StrDocumentSp \o docId)

----------------------------------------------------------------------------
(* Page Renderer *)

UpperSeq == Chars("ABCDEFGHIJKLMNOPQRSTUVWXYZ")
LowerSeq == Chars("abcdefghijklmnopqrstuvwxyz")
DigitSeq == Chars("0123456789")
isUpper(ch) == \E i \in 1..Len(UpperSeq) : UpperSeq[i] = ch
isLower(ch) == \E i \in 1..Len(LowerSeq) : LowerSeq[i] = ch
isDigit(ch) == \E i \in 1..Len(DigitSeq) : DigitSeq[i] = ch

\* .replace(/\n{3,}/g, '\n\n'): of a run of newlines the first two stay
collapseNewlines(s) ==
    keepAt(s, SelectSeq(positions(s),
                        LAMBDA i : ~(s[i] = "\n" /\ i >= 3 /\ s[i - 1] = "\n" /\ s[i - 2] = "\n")))

\* mutant: the replacement without the g flag, first match only
spaceAfterPeriod_First(s) ==
    LET gaps == SelectSeq(positions(s),
                          LAMBDA i : i < Len(s) /\ s[i] = "." /\ isUpper(s[i + 1]))
    IN  IF gaps = <<>> THEN s
        ELSE SubSeq(s, 1, gaps[1]) \o <<" ">> \o SubSeq(s, gaps[1] + 1, Len(s))

\* .replace(/\.([A-Z])/g, '. $1')
spaceAfterPeriod(s) ==
    LET gap(i) == i < Len(s) /\ s[i] = "." /\ isUpper(s[i + 1])
        wide == [k \in 1..(2 * Len(s)) |->
                    IF k % 2 = 1 THEN s[(k + 1) \div 2]
                    ELSE IF gap(k \div 2) THEN " " ELSE ""]
    IN  SelectSeq(wide, LAMBDA ch : ch # "")

\* .replace(/[ \t]{2,}/g, ' '): a run of two or more becomes one space
collapseSpaces(s) ==
    LET blank(i) == i >= 1 /\ i <= Len(s) /\ s[i] \in {" ", "\t"}
        first == [i \in 1..Len(s) |-> IF blank(i) /\ blank(i + 1) THEN " " ELSE s[i]]
    IN  keepAt(first, SelectSeq(positions(s), LAMBDA i : ~(blank(i) /\ blank(i - 1))))

\* the clean-up chain applied to section.content
normalizeContent(content) ==
    trim(collapseSpaces(spaceAfterPeriod(collapseNewlines(trim(content)))))

endsWithNewline(s) == s # <<>> /\ s[Len(s)] = "\n"

Page(title, content, parentTab, sourceDocument) ==
    [title |-> title, content |-> content, parentTab |-> parentTab,
     sourceDocument |-> sourceDocument]

\* Math.min(section.level || 1, 6)
headerCount(section) ==
    LET level == IF section.level = 0 THEN 1 ELSE section.level
    IN  IF level < 6 THEN level ELSE 6

\* '#'.repeat(count) throws a RangeError for a negative count
renderThrows(section) == headerCount(section) < 0

\* mutant: the final newline is appended unconditionally
ensureNewline_Always(markdownContent) == markdownContent \o NL

\* if (!markdownContent.endsWith('\n')) markdownContent += '\n'
ensureNewline(markdownContent) ==
    IF endsWithNewline(markdownContent) THEN markdownContent ELSE markdownContent \o NL

\* mutant: the renderer numbers its pages with a counter kept between calls
createNotionPageFromSection_Counted(section) ==
    Page(section.title,
         repeat(<<"#">>, headerCount(section)) \o <<" ">> \o section.title \o NL \o NL
         \o normalizeContent(section.content) \o NL \o numStr(Len(pureOut.rendered)) \o NL,
         section.parentTab, section.sourceDocument)

createNotionPageFromSection(section) ==
    LET headerPrefix == repeat(<<"#">>, headerCount(section))
        markdownContent == headerPrefix \o <<" ">> \o section.title \o NL \o NL
                           \o normalizeContent(section.content)
    IN  Page(section.title, ensureNewline(markdownContent),
             section.parentTab, section.sourceDocument)

\* mutant: the catch drops the Section that failed to render
renderCatch_Skip(section) == <<>>

\* what the catch of createNotionPagesFromSections pushes: the minimal page,
\* without parentTab and sourceDocument
renderCatch(section) ==
    <<Page(section.title,
           <<"#", " ">> \o section.title \o NL \o NL \o section.content, <<>>, <<>>)>>

RECURSIVE createNotionPagesFromSections(_)
createNotionPagesFromSections(sections) ==
    IF sections = <<>> THEN <<>>
    ELSE (IF renderThrows(Head(sections)) THEN renderCatch(Head(sections))
          ELSE <<createNotionPageFromSection(Head(sections))>>)
         \o createNotionPagesFromSections(Tail(sections))

----------------------------------------------------------------------------
(* Grouping / naming *)

\* .replace(/[^a-zA-Z0-9\s-]/g, '')
stripSpecial(s) ==
    SelectSeq(s, LAMBDA ch : isUpper(ch) \/ isLower(ch) \/ isDigit(ch) \/ ch \in WS \/ ch = "-")

\* .replace(/\s+/g, '-')
hyphenateSpaces(s) ==
    LET first == [i \in 1..Len(s) |-> IF s[i] \in WS THEN "-" ELSE s[i]]
    IN  keepAt(first, SelectSeq(positions(s),
                            LAMBDA i : ~(s[i] \in WS /\ i > 1 /\ s[i - 1] \in WS)))

toLowerChar(ch) ==
    IF isUpper(ch) THEN LowerSeq[CHOOSE i \in 1..Len(UpperSeq) : UpperSeq[i] = ch] ELSE ch

\* .toLowerCase()
toLowerCase(s) == [i \in 1..Len(s) |-> toLowerChar(s[i])]

\* the file-name form of a title or document name
cleanName(s) == toLowerCase(hyphenateSpaces(stripSpecial(s)))

\* new Date().toLocaleDateString(): the day of the run, supplied by the browser
StrToday == Chars("1/2/2026")
StrFooter == Chars("\n\n---\n\n*Converted from Google Docs to Notion on ")
StrMd == Chars(".md")
StrUnknownDocument == Chars("Unknown Document")

File(name, content) == [name |-> name, content |-> content]

RECURSIVE createMarkdownFiles(_)
createMarkdownFiles(pgs) ==
    IF pgs = <<>> THEN <<>>
    ELSE (IF trim(Head(pgs).title) = <<>> THEN <<>>
          ELSE <<File(cleanName(Head(pgs).title) \o StrMd,
                      Head(pgs).content \o StrFooter \o StrToday \o <<"*">>)>>)
         \o createMarkdownFiles(Tail(pgs))

\* pages with a non-blank title, in order
\* mutant: pages are grouped whatever their title
titledPages_All(pgs) == pgs

RECURSIVE titledPages(_)
titledPages(pgs) ==
    IF pgs = <<>> THEN <<>>
    ELSE (IF trim(Head(pgs).title) = <<>> THEN <<>> ELSE <<Head(pgs)>>)
         \o titledPages(Tail(pgs))

sourceDocOf(page) ==
    IF page.sourceDocument # <<>> THEN page.sourceDocument ELSE StrUnknownDocument

\* value of a canonical array-index key ("0", "7", "12"), or -1: Object.keys
\* lists such keys first, in ascending numeric order
RECURSIVE digitsValue(_, _)
digitsValue(s, accu) ==
    IF s = <<>> THEN accu
    ELSE digitsValue(Tail(s), 10 * accu + (CHOOSE i \in 1..10 : DigitSeq[i] = Head(s)) - 1)

arrayIndexOf(key) ==
    IF key # <<>> /\ (\A i \in 1..Len(key) : isDigit(key[i]))
       /\ (Len(key) = 1 \/ key[1] # "0") /\ Len(key) <= 9
    THEN digitsValue(key, 0) ELSE 0 - 1

\* distinct source documents in order of first appearance
RECURSIVE groupKeys(_, _)
groupKeys(pgs, seen) ==
    IF pgs = <<>> THEN seen
    ELSE groupKeys(Tail(pgs),
                   IF \E i \in 1..Len(seen) : seen[i] = sourceDocOf(Head(pgs))
                   THEN seen ELSE Append(seen, sourceDocOf(Head(pgs))))

\* insertion of an array-index key into the ascending run of such keys
RECURSIVE insertIndexKey(_, _)
insertIndexKey(keys, key) ==
    IF keys = <<>> THEN <<key>>
    ELSE IF arrayIndexOf(Head(keys)) > arrayIndexOf(key)
    THEN <<key>> \o keys ELSE <<Head(keys)>> \o insertIndexKey(Tail(keys), key)

RECURSIVE sortIndexKeys(_)
sortIndexKeys(keys) ==
    IF keys = <<>> THEN <<>>
    ELSE insertIndexKey(sortIndexKeys(Tail(keys)), Head(keys))

isIndexKey(key) == arrayIndexOf(key) >= 0
isNameKey(key) == arrayIndexOf(key) < 0

\* Object.keys(documentGroups)
objectKeys(pgs) ==
    LET keys == groupKeys(pgs, <<>>)
    IN  sortIndexKeys(SelectSeq(keys, isIndexKey)) \o SelectSeq(keys, isNameKey)

StrSourceFooter == Chars("\n\n---\n\n*Source: ")
StrConvertedOn == Chars("*Converted from Google Docs to Notion on ")

folderFile(page, docName) ==
    File(cleanName(docName) \o <<"-", "-">> \o cleanName(page.title) \o StrMd,
         page.content \o StrSourceFooter \o docName \o <<"*", "\n">>
         \o StrConvertedOn \o StrToday \o <<"*">>)

\* mutant: the pages of a group are put in front of the group (unshift for push)
RECURSIVE groupFiles_Unshift(_, _)
groupFiles_Unshift(pgs, docName) ==
    IF pgs = <<>> THEN <<>>
    ELSE groupFiles_Unshift(Tail(pgs), docName)
         \o (IF sourceDocOf(Head(pgs)) = docName THEN <<folderFile(Head(pgs), docName)>>
             ELSE <<>>)

RECURSIVE groupFiles(_, _)
groupFiles(pgs, docName) ==
    IF pgs = <<>> THEN <<>>
    ELSE (IF sourceDocOf(Head(pgs)) = docName THEN <<folderFile(Head(pgs), docName)>>
          ELSE <<>>)
         \o groupFiles(Tail(pgs), docName)

RECURSIVE filesOfGroups(_, _)
filesOfGroups(keys, pgs) ==
    IF keys = <<>> THEN <<>>
    ELSE groupFiles(pgs, Head(keys)) \o filesOfGroups(Tail(keys), pgs)

createMarkdownFilesFromFolder(pgs) ==
    filesOfGroups(objectKeys(titledPages(pgs)), titledPages(pgs))

----------------------------------------------------------------------------
(* Document values *)

NoParagraph == [elements |-> <<>>, namedStyleType |-> "NONE", bullet |-> NoBullet]
NoTable == [tableRows |-> <<>>]

Run(text, textStyle) == [content |-> text, textStyle |-> textStyle]
Para(style, runs, bullet) ==
    [kind |-> "paragraph",
     paragraph |-> [elements |-> runs, namedStyleType |-> style, bullet |-> bullet],
     table |-> NoTable]
Plain(style, text) == Para(style, <<Run(text, NoStyle)>>, NoBullet)
TableEl(rows) == [kind |-> "table", paragraph |-> NoParagraph, table |-> [tableRows |-> rows]]
\* a structural element that is neither a paragraph nor a table (sectionBreak)
OtherEl == [kind |-> "other", paragraph |-> NoParagraph, table |-> NoTable]
Cell(text) == <<[elements |-> <<Run(text, NoStyle)>>, namedStyleType |-> "NORMAL_TEXT",
                 bullet |-> NoBullet]>>

Body(content) == [has |-> TRUE, hasContent |-> TRUE, content |-> content]
BodyNoContent == [has |-> TRUE, hasContent |-> FALSE, content |-> <<>>]
NoBody == [has |-> FALSE, hasContent |-> FALSE, content |-> <<>>]

StrIntro == Chars("Intro text")
StrSetup == Chars("Setup")
StrStepOne == Chars("Step one")
StrDetails == Chars("Details")
StrMoreInfo == Chars("More info")
StrTab1 == StrTab \o <<"1">>
StrDoc == Chars("Doc")
StrMyDoc == Chars("My Doc")

BoldStyle == [NoStyle EXCEPT !.bold = TRUE]

PIntro == Plain("NORMAL_TEXT", StrIntro)
HSetup == Plain("HEADING_1", StrSetup)
PStepOne == Plain("NORMAL_TEXT", StrStepOne)
HDetails == Plain("HEADING_2", StrDetails)
PMoreInfo == Plain("NORMAL_TEXT", StrMoreInfo)
PBlank == Plain("NORMAL_TEXT", <<" ", "\n">>)
HBlank == Plain("HEADING_3", <<"\n">>)
HTab1 == Plain("TITLE", StrTab1 \o NL)
PBullet == Para("NORMAL_TEXT", <<Run(<<"a">>, BoldStyle), Run(<<"b", "\n">>, NoStyle)>>,
                [has |-> TRUE, ordered |-> TRUE, nestingLevel |-> 1])
Table1 == TableEl(<<<<Cell(<<"x", " ">>), Cell(<<"y">>)>>, <<Cell(<<"1">>), Cell(<<>>)>>>>)
Table0 == TableEl(<<>>)

ElementPool ==
    {PIntro, HSetup, PStepOne, HDetails, PBlank, HBlank, HTab1, PBullet, Table1, Table0,
     OtherEl}

\* longest body content drawn
MaxElems == 3

ScenarioABody == Body(<<PIntro, HSetup, PStepOne, HDetails, PMoreInfo>>)
TwoHeadingsBody == Body(<<HSetup, PStepOne, HDetails, PMoreInfo>>)

Bodies ==
    {Body(c) : c \in UNION {[1..k -> ElementPool] : k \in 0..MaxElems}}
    \cup {ScenarioABody, TwoHeadingsBody, BodyNoContent, NoBody}

ParentNames == {StrDoc, StrTab1}

----------------------------------------------------------------------------
(* The run's idle values *)

NoDocTab == [has |-> FALSE, body |-> NoBody]
DocNone == [title |-> <<>>, tabs |-> <<>>, body |-> NoBody]
NoStatus == [type |-> "none", msg |-> <<>>]
NoThrown == [has |-> FALSE, msg |-> <<>>]

RunIdle ==
    /\ sourceType = "google-doc" /\ urlValid = TRUE /\ pc = "idle" /\ variant = 0
    /\ attempts = <<>> /\ events = <<>>
    /\ fetched = DocNone /\ docs = <<>> /\ docIdx = 0
    /\ allSections = <<>> /\ origin = <<>> /\ pages = <<>> /\ files = <<>> /\ downloaded = FALSE
    /\ status = NoStatus /\ thrown = NoThrown

NoPureIn == [kind |-> "none", sections |-> <<>>, content |-> <<>>,
             table |-> [tableRows |-> <<>>], textRun |-> [content |-> <<>>, textStyle |-> NoStyle],
             pages |-> <<>>]
NoPureOut == [pages |-> <<>>, text |-> <<>>, again |-> <<>>, rendered |-> <<>>, files |-> <<>>]

PureIdle == pureIn = NoPureIn /\ pureCall = "none" /\ pureOut = NoPureOut

EnvIdle ==
    /\ clientId = FALSE /\ apiKey = FALSE /\ initPc = "start"
    /\ gapiClient = FALSE /\ tokenClient = FALSE
    /\ isSignedIn = FALSE /\ hasToken = FALSE

----------------------------------------------------------------------------
(* Segmentation harness: the pure functions applied to drawn inputs *)

NoCall == [fn |-> "none", tabKind |-> "none", tabIndex |-> 0, documentTitle |-> <<>>,
           tabTitle |-> <<>>, shape |-> "none", docName |-> <<>>]

TabKinds == {"documentTab", "body", "none"}

\* a tab of the given shape around a body
MakeTab(title, tabKind, body) ==
    [title |-> title,
     documentTab |-> IF tabKind = "documentTab" THEN [has |-> TRUE, body |-> body]
                     ELSE NoDocTab,
     body |-> IF tabKind = "body" THEN body ELSE NoBody,
     childTabs |-> <<>>]

InitSeg ==
    /\ segBody \in Bodies
    /\ segParent \in ParentNames
    /\ segCall = NoCall
    /\ segOut = <<>>
    /\ PureIdle
    /\ EnvIdle
    /\ RunIdle

CallExtractSectionsFromBody ==
    /\ segCall.fn = "none"
    /\ segCall' = [NoCall EXCEPT !.fn = "body"]
    /\ segOut' = extractSectionsFromBody(segBody, segParent)
    /\ UNCHANGED <<segBody, segParent, pureVars, envVars, runVars>>

CallExtractSectionsFromTab ==
    /\ segCall.fn = "none"
    /\ \E tabKind \in TabKinds, tabIndex \in {0, 1}, documentTitle \in {<<>>, StrMyDoc},
          tabTitle \in {<<>>, segParent} :
          /\ tabTitle # <<>> => (tabIndex = 0 /\ documentTitle # <<>>)
          /\ segCall' = [fn |-> "tab", tabKind |-> tabKind, tabIndex |-> tabIndex,
                         documentTitle |-> documentTitle, tabTitle |-> tabTitle,
                         shape |-> "none", docName |-> <<>>]
          /\ segOut' = extractSectionsFromTab(MakeTab(tabTitle, tabKind, segBody),
                                              tabIndex, documentTitle)
    /\ UNCHANGED <<segBody, segParent, pureVars, envVars, runVars>>

StrMain == Chars("Main")
StrChild == Chars("Child")
MainBody == Body(<<PIntro>>)
ChildBody == Body(<<HDetails, PMoreInfo>>)

\* where the drawn tab sits in the document's tab tree: the only tab, before
\* or after the tab Main, a child of Main, or a child of Main's child
DocShapes == {"only", "first", "second", "child", "grandchild"}

withChildren(tab, children) == [tab EXCEPT !.childTabs = children]

ShapedDoc(shape, documentTitle, tab) ==
    [title |-> documentTitle,
     tabs  |-> CASE shape = "only"   -> <<tab>>
                 [] shape = "first"  -> <<tab, MakeTab(StrMain, "documentTab", MainBody)>>
                 [] shape = "second" -> <<MakeTab(StrMain, "documentTab", MainBody), tab>>
                 [] shape = "child"  ->
                        <<withChildren(MakeTab(StrMain, "documentTab", MainBody), <<tab>>)>>
                 [] OTHER ->
                        <<withChildren(MakeTab(StrMain, "documentTab", MainBody),
                            <<withChildren(MakeTab(StrChild, "documentTab", ChildBody),
                                           <<tab>>)>>)>>,
     body  |-> NoBody]

\* the document of a "doc" call
CalledDoc ==
    ShapedDoc(segCall.shape, segCall.documentTitle,
              MakeTab(segCall.tabTitle, "documentTab", segBody))

CallExtractSectionsFromGoogleDoc ==
    /\ segCall.fn = "none"
    /\ \E shape \in DocShapes, documentTitle \in {<<>>, StrMyDoc}, tabTitle \in {<<>>, segParent} :
          /\ segCall' = [fn |-> "doc", tabKind |-> "documentTab", tabIndex |-> 0,
                         documentTitle |-> documentTitle, tabTitle |-> tabTitle,
                         shape |-> shape, docName |-> <<>>]
          /\ segOut' = extractSectionsFromGoogleDoc(
                           ShapedDoc(shape, documentTitle,
                                     MakeTab(tabTitle, "documentTab", segBody)))
    /\ UNCHANGED <<segBody, segParent, pureVars, envVars, runVars>>

\* the listed name of a member document
StrListed == Chars("Listed")

\* processDocumentById on a fetched document whose drawn tab is the only tab or
\* the second one
CallProcessDocumentById ==
    /\ segCall.fn = "none"
    /\ \E shape \in {"only", "second"}, documentTitle \in {<<>>, StrMyDoc},
          tabTitle \in {<<>>, segParent} :
          /\ segCall' = [fn |-> "byId", tabKind |-> "documentTab", tabIndex |-> 0,
                         documentTitle |-> documentTitle, tabTitle |-> tabTitle,
                         shape |-> shape, docName |-> StrListed]
          /\ segOut' = processDocumentById(
                           ShapedDoc(shape, documentTitle,
                                     MakeTab(tabTitle, "documentTab", segBody)),
                           <<"1">>, StrListed)
    /\ UNCHANGED <<segBody, segParent, pureVars, envVars, runVars>>

NextSeg ==
    \/ CallExtractSectionsFromBody
    \/ CallExtractSectionsFromTab
    \/ CallExtractSectionsFromGoogleDoc
    \/ CallProcessDocumentById

SpecSeg == InitSeg /\ [][NextSeg]_vars

----------------------------------------------------------------------------
(* Renderer harness: the Page Renderer, the table renderer and the run     *)
(* formatter applied to drawn inputs                                       *)

\* most Sections in a drawn list, longest drawn content string, most rows of
\* a drawn table
MaxSections == 2
MaxContentLen == 5
MaxRows == 2

StrTitle == Chars("Title")
StrLink == Chars("https://x")

\* contents a Section can carry: empty, blank, plain, and text the clean-up changes
RenderContents ==
    {<<>>, Chars(" \n"), Chars("Body"), Chars("a\n\n\n\nb"), Chars("Hi.There  x\n")}
\* levels: a negative one (not a count), none, a heading level, one above six
RenderLevels == {0 - 1, 0, 2, 7}
RenderSections ==
    {Section(StrTitle, content, level, StrDoc) : content \in RenderContents, level \in RenderLevels}

SeqsUpTo(S, n) == UNION {[1..k -> S] : k \in 0..n}

ContentAlphabet == {" ", "\n", ".", "A", "a"}
ContentStrings ==
    SeqsUpTo(ContentAlphabet, MaxContentLen)
    \cup {Chars("a \t b"), Chars("a\t\tb."), Chars("\tA.B\n\n\n\n\nC  .D. ")}

\* cell texts: none, padded, with a pipe, with two paragraphs
CellTexts == {<<>>, <<" ", "x", "\n">>, <<"a", "|", "b">>, <<"a", "\n", "b", "\n">>}
\* rows of one cell and of two cells
TableRowPool ==
    {<<Cell(text)>> : text \in CellTexts}
    \cup {<<Cell(left), Cell(right)>> : left \in CellTexts, right \in CellTexts}
Tables == {[tableRows |-> rows] : rows \in SeqsUpTo(TableRowPool, MaxRows)}

TextStyles ==
    [bold : BOOLEAN, italic : BOOLEAN, underline : BOOLEAN, strikethrough : BOOLEAN,
     linkUrl : {<<>>, StrLink}]
TextRuns == {Run(text, textStyle) : text \in {<<>>, <<"h", "i">>}, textStyle \in TextStyles}

\* Sections rendered one at a time, in any order and more than once
RepeatSections ==
    {Section(StrTitle, Chars("Body"), 2, StrDoc),
     Section(StrTitle, Chars("Hi.There  x\n"), 0, StrDoc),
     Section(StrDoc, Chars("Body"), 2, StrTitle)}

\* titles of pages to be named: missing, blank, plain, two that clean to the
\* same name, one without any letter or digit
PageTitles == {<<>>, Chars(" \n"), StrTitle, Chars("Title!"), Chars("!?")}
NamedPages ==
    {Page(title, Chars("# x\n"), StrDoc, sourceDocument) :
        title \in PageTitles, sourceDocument \in {<<>>, StrDoc}}

PureInputs ==
    {[NoPureIn EXCEPT !.kind = "sections", !.sections = sections] :
        sections \in SeqsUpTo(RenderSections, MaxSections)}
    \cup {[NoPureIn EXCEPT !.kind = "repeat", !.sections = sections] :
             sections \in SeqsUpTo(RepeatSections, MaxSections) \ {<<>>}}
    \cup {[NoPureIn EXCEPT !.kind = "pages", !.pages = pgs] :
             pgs \in SeqsUpTo(NamedPages, MaxSections)}
    \cup {[NoPureIn EXCEPT !.kind = "content", !.content = content] :
             content \in ContentStrings}
    \cup {[NoPureIn EXCEPT !.kind = "table", !.table = table] : table \in Tables}
    \cup {[NoPureIn EXCEPT !.kind = "textRun", !.textRun = textRun] : textRun \in TextRuns}

InitPure ==
    /\ pureIn \in PureInputs
    /\ pureCall = "none"
    /\ pureOut = NoPureOut
    /\ segBody = NoBody /\ segParent = <<>> /\ segCall = NoCall /\ segOut = <<>>
    /\ EnvIdle
    /\ RunIdle

CallCreateNotionPagesFromSections ==
    /\ pureCall = "none" /\ pureIn.kind = "sections"
    /\ pureCall' = "createNotionPagesFromSections"
    /\ pureOut' = [NoPureOut EXCEPT !.pages = createNotionPagesFromSections(pureIn.sections)]
    /\ UNCHANGED <<pureIn, segVars, envVars, runVars>>

\* the clean-up chain of createNotionPageFromSection, applied once and then
\* to its own result
CallNormalizeContent ==
    /\ pureCall = "none" /\ pureIn.kind = "content"
    /\ pureCall' = "normalizeContent"
    /\ pureOut' = [NoPureOut EXCEPT !.text = normalizeContent(pureIn.content),
                                    !.again = normalizeContent(normalizeContent(pureIn.content))]
    /\ UNCHANGED <<pureIn, segVars, envVars, runVars>>

CallExtractTableFromElement ==
    /\ pureCall = "none" /\ pureIn.kind = "table"
    /\ pureCall' = "extractTableFromElement"
    /\ pureOut' = [NoPureOut EXCEPT !.text = extractTableFromElement(pureIn.table)]
    /\ UNCHANGED <<pureIn, segVars, envVars, runVars>>

CallApplyTextFormatting ==
    /\ pureCall = "none" /\ pureIn.kind = "textRun"
    /\ pureCall' = "applyTextFormatting"
    /\ pureOut' = [NoPureOut EXCEPT
                      !.text = applyTextFormatting(pureIn.textRun.content,
                                                   pureIn.textRun.textStyle)]
    /\ UNCHANGED <<pureIn, segVars, envVars, runVars>>

\* a paragraph that consists of the drawn run
CallExtractFormattedTextFromParagraph ==
    /\ pureCall = "none" /\ pureIn.kind = "textRun"
    /\ pureCall' = "extractFormattedTextFromParagraph"
    /\ pureOut' = [NoPureOut EXCEPT
                      !.text = extractFormattedTextFromParagraph(
                                   [elements |-> <<pureIn.textRun>>,
                                    namedStyleType |-> "NORMAL_TEXT", bullet |-> NoBullet])]
    /\ UNCHANGED <<pureIn, segVars, envVars, runVars>>

\* one call of createNotionPageFromSection on one of the drawn Sections; the
\* calls of a behaviour are logged with the index of their Section
CallCreateNotionPageFromSection ==
    /\ pureIn.kind = "repeat"
    /\ Len(pureOut.rendered) <= Len(pureIn.sections)
    /\ \E i \in 1..Len(pureIn.sections) :
          pureOut' = [pureOut EXCEPT
                         !.rendered = Append(@, [index |-> i,
                                                 page |-> createNotionPageFromSection(
                                                              pureIn.sections[i])])]
    /\ pureCall' = "createNotionPageFromSection"
    /\ UNCHANGED <<pureIn, segVars, envVars, runVars>>

CallCreateMarkdownFiles ==
    /\ pureCall = "none" /\ pureIn.kind = "pages"
    /\ pureCall' = "createMarkdownFiles"
    /\ pureOut' = [NoPureOut EXCEPT !.files = createMarkdownFiles(pureIn.pages)]
    /\ UNCHANGED <<pureIn, segVars, envVars, runVars>>

CallCreateMarkdownFilesFromFolder ==
    /\ pureCall = "none" /\ pureIn.kind = "pages"
    /\ pureCall' = "createMarkdownFilesFromFolder"
    /\ pureOut' = [NoPureOut EXCEPT !.files = createMarkdownFilesFromFolder(pureIn.pages)]
    /\ UNCHANGED <<pureIn, segVars, envVars, runVars>>

NextPure ==
    \/ CallCreateNotionPagesFromSections
    \/ CallCreateNotionPageFromSection
    \/ CallCreateMarkdownFiles
    \/ CallCreateMarkdownFilesFromFolder
    \/ CallNormalizeContent
    \/ CallExtractTableFromElement
    \/ CallApplyTextFormatting
    \/ CallExtractFormattedTextFromParagraph

SpecPure == InitPure /\ [][NextPure]_vars

----------------------------------------------------------------------------
(* Messages *)

MsgInvalidFolderLink == Chars("Please enter a valid Google Drive folder share link")
MsgInvalidDocLink == Chars("Please enter a valid Google Docs share link")
MsgConfigRequired ==
    Chars("Google API configuration is required for folder processing. Please set up your Google API credentials.")
MsgSignInFailed == Chars("Sign in failed")
MsgAuthenticationFailed == Chars("Authentication failed")
MsgAccessDeniedByUser == Chars("access_denied")
MsgAuthDocs == Chars("Authentication required to access Google Docs")
MsgAuthDrive ==
    Chars("Authentication required to access Google Drive. Please sign in when prompted.")
MsgAuthList == Chars("Authentication required. Please sign in to access Drive folders.")
MsgAuthenticationRequired == Chars("Authentication required")
MsgListUnavailable == Chars("drive.files.list not available")
MsgNoToken == Chars("No valid access token available. Please sign in again.")
MsgDriveApiNotEnabled == Chars("DRIVE_API_NOT_ENABLED")
MsgApiRequestFailed == Chars("API request failed: ")
MsgAccessDenied ==
    Chars("Access denied. Please ensure you have signed in and the folder is shared with your account.")
MsgAccessDeniedKey == Chars("Access denied")
MsgUnableFolder ==
    Chars("Unable to access folder. Please ensure the folder is shared and you have access: ")
MsgUnknownError == Chars("Unknown error")
MsgNoDocsInFolder == Chars("No Google Docs found in the specified folder")
MsgNoSectionsAny == Chars("No content sections found in any of the documents")
MsgNoSectionsDoc == Chars("No content sections found in the document")
MsgErrorPrefix == Chars("Error: ")
MsgDriveApiNeeded == Chars("Google Drive API needs to be enabled")
MsgAuthenticating == Chars("Authenticating with Google...")
MsgFetching == Chars("Fetching document via Google Docs API...")
MsgListing == Chars("Listing documents in folder...")
MsgProcessing == Chars("Processing ")
MsgSuccess == Chars("Workspace generated successfully! Download starting...")
MsgFallback == Chars("Using fallback method (HTML parsing) - results may be less accurate")
MsgUndefined == Chars("undefined")

\* ${value} of a possibly missing string inside a template literal
templ(str) == IF str = <<>> THEN MsgUndefined ELSE str

StatusOf(type, msg) == [type |-> type, msg |-> msg]

\* mutant: the catch of processDocument without the DRIVE_API_NOT_ENABLED case
catchStatus_Generic(message) == StatusOf("error", MsgErrorPrefix \o templ(message))

\* mutant: the catch of processDocument swallows the error
catchStatus_Swallow(message) == StatusOf("success", MsgSuccess)

\* the catch block of processDocument: what is shown for a caught error
\* (showDriveApiNotEnabledError for the named Drive error)
catchStatus(message) ==
    IF message = MsgDriveApiNotEnabled
    THEN StatusOf("error", MsgDriveApiNeeded)
    ELSE StatusOf("error", MsgErrorPrefix \o templ(message))

----------------------------------------------------------------------------
(* External results *)

\* ways a request can fail: a thrown network error, a rejected gapi response
\* (no own message), an error raised while reading the response
FailKinds == {"network", "auth", "schema"}

failMessage(kind) ==
    CASE kind = "network" -> Chars("Failed to fetch")
      [] kind = "schema" -> Chars("Cannot read properties of undefined")
      [] OTHER -> <<>>

StrGuide == Chars("Guide")
StrNotes == Chars("Notes")
StrSub == Chars("Sub")
StrEmpty == Chars("Empty")

DocEmpty == [title |-> StrEmpty, tabs |-> <<>>, body |-> NoBody]
DocGuide == [title |-> StrGuide, tabs |-> <<>>, body |-> Body(<<OtherEl, HSetup, PStepOne>>)]
DocNotes ==
    [title |-> StrNotes,
     tabs |-> <<[MakeTab(<<>>, "documentTab", Body(<<PIntro>>)) EXCEPT
                    !.childTabs = <<MakeTab(StrSub, "documentTab",
                                            Body(<<HDetails, PMoreInfo>>))>>]>>,
     body |-> NoBody]

\* documents a fetch can return
DocPool == {DocEmpty, DocGuide, DocNotes}

StrAlpha == Chars("Alpha")
StrBeta == Chars("Beta")
StrGamma == Chars("Gamma")
StrYear == Chars("2024")
DocItem(id, name) == [id |-> id, name |-> name]

\* longest folder listing drawn
MaxDocs == 2

\* the first k documents of a folder whose names differ, and of a folder
\* whose first two documents share a name
FolderMixed(k) ==
    [i \in 1..k |-> DocItem(numStr(i), CASE i % 3 = 1 -> StrAlpha
                                        [] i % 3 = 2 -> StrBeta
                                        [] OTHER -> StrGamma)]
FolderTwins(k) == [i \in 1..k |-> DocItem(numStr(i), IF i <= 2 THEN StrAlpha ELSE StrBeta)]
\* a folder whose second document is named by a year
DatedListing == <<DocItem(<<"1">>, StrAlpha), DocItem(<<"2">>, StrYear)>>

\* the folder of three documents of Scenario D
ScenarioDListing == FolderMixed(3)

\* files arrays a listing can return
Listings ==
    {FolderMixed(k) : k \in 0..MaxDocs} \cup {FolderTwins(k) : k \in 0..MaxDocs}
    \cup {ScenarioDListing, DatedListing}

Attempt(v, ok, kind, doc) == [variant |-> v, ok |-> ok, kind |-> kind, doc |-> doc]

----------------------------------------------------------------------------
(* initializeGoogleAPI *)

InitRun ==
    /\ clientId \in BOOLEAN /\ apiKey \in BOOLEAN /\ initPc = "start"
    /\ gapiClient = FALSE /\ tokenClient = FALSE
    /\ isSignedIn = FALSE /\ hasToken = FALSE
    /\ RunIdle
    /\ segBody = NoBody /\ segParent = <<>> /\ segCall = NoCall /\ segOut = <<>>
    /\ PureIdle

\* up to the end of `await gapi.load('client', ...)`
InitializeLoad ==
    /\ initPc = "start"
    /\ \/ /\ ~clientId \/ ~apiKey
          /\ initPc' = "unconfigured"
          /\ UNCHANGED gapiClient
       \/ /\ clientId /\ apiKey
          /\ \E ok \in BOOLEAN :
                /\ gapiClient' = ok
                /\ initPc' = IF ok THEN "loaded" ELSE "failed"
    /\ UNCHANGED <<clientId, apiKey, tokenClient, isSignedIn, hasToken, segVars, pureVars, runVars>>

\* gapi.client.init (with its fallback) and initTokenClient
InitializeClient ==
    /\ initPc = "loaded"
    /\ \E ok \in BOOLEAN :
          /\ tokenClient' = ok
          /\ initPc' = IF ok THEN "done" ELSE "failed"
    /\ UNCHANGED <<clientId, apiKey, gapiClient, isSignedIn, hasToken, segVars, pureVars, runVars>>

----------------------------------------------------------------------------
(* processDocument *)

\* the run ends in the catch block of processDocument
Caught(message) ==
    /\ thrown' = [has |-> TRUE, msg |-> message]
    /\ status' = catchStatus(message)
    /\ pc' = "done"

\* mutant: folder processing is admitted without the Google API configuration
canUseGoogleAPI_Always(cid, gc) == TRUE

\* this.CLIENT_ID && gapi.client
canUseGoogleAPI(cid, gc) == cid /\ gc

\* mutant: a document is always converted over the degraded path
choosePath_Degraded(capable) == "degraded"

\* the branch of processDocument for a single document
choosePath(capable) == IF capable THEN "rich" ELSE "degraded"

\* mutant: every listing failure is wrapped into the generic folder error
listErrorMap_Generic(message) ==
    MsgUnableFolder \o (IF message # <<>> THEN message ELSE MsgUnknownError)

\* the outer catch of listDocsInFolder: the error it rethrows
listErrorMap(message) ==
    IF message = MsgDriveApiNotEnabled THEN MsgDriveApiNotEnabled
    ELSE IF message # <<>> /\ includes(message, MsgAuthenticationRequired) THEN message
    ELSE IF message # <<>> /\ includes(message, MsgAccessDeniedKey) THEN message
    ELSE MsgUnableFolder \o (IF message # <<>> THEN message ELSE MsgUnknownError)

\* values reset when a run starts
ResetRun ==
    /\ attempts' = <<>> /\ fetched' = DocNone
    /\ docs' = <<>> /\ docIdx' = 0
    /\ allSections' = <<>> /\ origin' = <<>> /\ pages' = <<>> /\ files' = <<>> /\ downloaded' = FALSE

\* authenticated: processWithGoogleAPI goes on to its first request,
\* processFolderWithGoogleAPI to listDocsInFolder and its first listing method
Proceed(path, ev) ==
    /\ events' = ev
    /\ IF path = "rich"
       THEN /\ pc' = "rich_req" /\ variant' = 1
            /\ status' = StatusOf("processing", MsgFetching)
            /\ thrown' = NoThrown
       ELSE IF ~isSignedIn \/ ~hasToken
       THEN Caught(listErrorMap(MsgAuthList)) /\ variant' = 0
       ELSE /\ pc' = "list" /\ variant' = 1
            /\ status' = StatusOf("processing", MsgListing)
            /\ thrown' = NoThrown

\* the start of processWithGoogleAPI / processFolderWithGoogleAPI, up to the
\* first await: signed in already, or signIn() is called
EnterAuth(path) ==
    IF isSignedIn /\ (path = "rich" \/ hasToken)
    THEN Proceed(path, <<path>>)
    ELSE /\ events' = <<path, "signIn">>
         /\ variant' = 0
         /\ thrown' = NoThrown
         /\ IF ~tokenClient
            THEN \* signIn catches 'Token client not initialized' and returns false
                 /\ pc' = "authwait"
                 /\ status' = StatusOf("error", MsgSignInFailed)
            ELSE \* tokenClient.requestAccessToken()
                 /\ pc' = "signin"
                 /\ status' = StatusOf("processing", MsgAuthenticating)

\* the submit handler: processDocument up to its first await
Submit ==
    /\ pc \in {"idle", "done"}
    /\ \E st \in {"google-doc", "drive-folder"}, valid \in BOOLEAN :
          /\ sourceType' = st
          /\ urlValid' = valid
          /\ ResetRun
          /\ IF ~valid
             THEN /\ pc' = "done" /\ variant' = 0 /\ events' = <<>>
                  /\ thrown' = NoThrown
                  /\ status' = StatusOf("error", IF st = "drive-folder"
                                                 THEN MsgInvalidFolderLink
                                                 ELSE MsgInvalidDocLink)
             ELSE IF st = "drive-folder"
             THEN IF ~canUseGoogleAPI(clientId, gapiClient)
                  THEN Caught(MsgConfigRequired) /\ variant' = 0 /\ events' = <<>>
                  ELSE EnterAuth("folder")
             ELSE IF choosePath(canUseGoogleAPI(clientId, gapiClient)) = "rich"
                  THEN EnterAuth("rich")
                  ELSE /\ pc' = "fb_fetch" /\ variant' = 1
                       /\ events' = <<"degraded">>
                       /\ thrown' = NoThrown
                       /\ status' = StatusOf("processing", MsgFallback)
    /\ UNCHANGED <<envVars, segVars, pureVars>>

\* the token client's callback answers requestAccessToken
SignInCallback ==
    /\ pc = "signin"
    /\ \E answer \in {"token", "error", "none"} :
          IF answer = "token"
          THEN /\ isSignedIn' = TRUE /\ hasToken' = TRUE
               /\ pc' = "authwait"
               /\ UNCHANGED <<status, thrown>>
          ELSE /\ Caught(IF answer = "error" THEN MsgAccessDeniedByUser
                         ELSE MsgAuthenticationFailed)
               /\ UNCHANGED <<isSignedIn, hasToken>>
    /\ UNCHANGED <<clientId, apiKey, initPc, gapiClient, tokenClient, segVars, pureVars,
                   sourceType, urlValid, variant, attempts, events, fetched, docs,
                   docIdx, allSections, origin, pages, files, downloaded>>

\* after the one-second wait that follows signIn()
\* mutant: the run goes on after the wait whether or not it is signed in
AuthWait_Unchecked ==
    /\ pc = "authwait"
    /\ IF events[1] = "rich"
       THEN /\ events' = events
            /\ pc' = "rich_req" /\ variant' = 1
            /\ status' = StatusOf("processing", MsgFetching)
            /\ thrown' = NoThrown
       ELSE /\ events' = events
            /\ pc' = "list" /\ variant' = 1
            /\ status' = StatusOf("processing", MsgListing)
            /\ thrown' = NoThrown
    /\ UNCHANGED <<envVars, segVars, pureVars, sourceType, urlValid, attempts, fetched, docs,
                   docIdx, allSections, origin, pages, files, downloaded>>

AuthWait ==
    /\ pc = "authwait"
    /\ IF events[1] = "rich"
       THEN IF ~isSignedIn
            THEN Caught(MsgAuthDocs) /\ UNCHANGED <<variant, events>>
            ELSE Proceed("rich", events)
       ELSE IF ~isSignedIn \/ ~hasToken
            THEN Caught(MsgAuthDrive) /\ UNCHANGED <<variant, events>>
            ELSE Proceed("folder", events)
    /\ UNCHANGED <<envVars, segVars, pureVars, sourceType, urlValid, attempts, fetched, docs,
                   docIdx, allSections, origin, pages, files, downloaded>>

----------------------------------------------------------------------------
(* Rich path: the request ladder *)

\* number of request variants (Method 1..4)
NumVariants == 4

\* mutant: a rejected (auth) response is not retried with the next variant
ladderNext_AuthAborts(v, kind) ==
    IF v < NumVariants /\ kind # "auth" THEN "retry" ELSE "throw"

\* the nested try/catch ladder: a failing variant is followed by the next
\* one, the failure of the last one propagates
ladderNext(v, kind) == IF v < NumVariants THEN "retry" ELSE "throw"

\* the log of the ladder the request belongs to (a new ladder starts at
\* variant 1); the error of a caught attempt is written to the console and dropped
ladderLog ==
    IF variant = 1 THEN <<>>
    ELSE [i \in 1..Len(attempts) |-> [attempts[i] EXCEPT !.kind = "logged"]]

\* mutant: the run goes on to the bundle although no Section was found
noSections_Ignored(sections) == FALSE

\* `sections.length === 0` of processWithGoogleAPI
noSections(sections) == Len(sections) = 0

\* processWithGoogleAPI from a fetched document to `await generateDownload`
RichSegment(doc) ==
    LET sections == extractSectionsFromGoogleDoc(doc)
    IN  /\ fetched' = doc
        /\ IF noSections(sections)
           THEN /\ Caught(MsgNoSectionsDoc)
                /\ UNCHANGED <<allSections, pages, files>>
           ELSE /\ allSections' = sections
                /\ pages' = createNotionPagesFromSections(sections)
                /\ files' = createMarkdownFiles(pages')
                /\ status' = StatusOf("success", MsgSuccess)
                /\ pc' = "download"
                /\ UNCHANGED thrown

\* one document request of processWithGoogleAPI and what follows its result
RichRequest ==
    /\ pc = "rich_req"
    /\ \/ \E kind \in FailKinds :
             /\ attempts' = Append(ladderLog, Attempt(variant, FALSE, kind, DocNone))
             /\ IF ladderNext(variant, kind) = "retry"
                THEN /\ variant' = variant + 1
                     /\ UNCHANGED <<pc, status, thrown>>
                ELSE /\ Caught(failMessage(kind))
                     /\ UNCHANGED variant
             /\ UNCHANGED <<fetched, allSections, pages, files>>
       \/ \E doc \in DocPool :
             /\ attempts' = Append(ladderLog, Attempt(variant, TRUE, "none", doc))
             /\ RichSegment(doc)
             /\ UNCHANGED variant
    /\ UNCHANGED <<envVars, segVars, pureVars, sourceType, urlValid, events, docs, docIdx, origin,
                   downloaded>>

\* generateDownload: the bundle is built and offered
GenerateDownload ==
    /\ pc = "download"
    /\ downloaded' = TRUE
    /\ pc' = "done"
    /\ UNCHANGED <<envVars, segVars, pureVars, sourceType, urlValid, variant, attempts, events,
                   fetched, docs, docIdx, allSections, origin, pages, files, status, thrown>>

----------------------------------------------------------------------------
(* Folder listing *)

StrForbidden == Chars("403 Forbidden")
StrServerError == Chars("500 Internal Server Error")

ListingMethod(v) == CASE v = 1 -> "list1" [] v = 2 -> "list2a" [] OTHER -> "list2b"

\* logged when the listing is answered by the 403 of a project without the Drive API
EvDriveApiDisabled == "response403DriveApiNotUsed"

StrQuote == <<"\"">>

processingStatus(name, i, n) ==
    StatusOf("processing",
             MsgProcessing \o StrQuote \o name \o StrQuote \o Chars(" (") \o numStr(i)
             \o <<"/">> \o numStr(n) \o Chars(")..."))

\* listDocsInFolder returned `resp`; processFolderWithGoogleAPI up to the first
\* document request
ListDone(resp) ==
    IF resp.status = 403
    THEN Caught(listErrorMap(MsgAccessDenied)) /\ UNCHANGED <<variant, docs, docIdx>>
    ELSE IF Len(resp.files) = 0
    THEN Caught(MsgNoDocsInFolder) /\ UNCHANGED <<variant, docs, docIdx>>
    ELSE /\ docs' = resp.files
         /\ docIdx' = 1
         /\ variant' = 1
         /\ pc' = "batch_req"
         /\ status' = processingStatus(resp.files[1].name, 1, Len(resp.files))
         /\ UNCHANGED thrown

\* catch (error1) checks the token before Method 2a; catch (error2a) goes on
\* to Method 2b
NextListingMethod ==
    IF variant = 1 /\ ~hasToken
    THEN Caught(listErrorMap(MsgNoToken)) /\ UNCHANGED variant
    ELSE variant' = variant + 1 /\ UNCHANGED <<pc, status, thrown>>

\* Method 1 (gapi.client.drive.files.list) and Method 2a (gapi.client.request)
ListViaGapi ==
    /\ pc = "list" /\ variant \in {1, 2}
    /\ \/ \* Method 1 only: drive.files.list is not available, no request is made
          /\ variant = 1
          /\ NextListingMethod
          /\ UNCHANGED <<events, docs, docIdx>>
       \/ \* the request fails: on to the next method
          /\ \E kind \in FailKinds :
                /\ events' = Append(events, ListingMethod(variant))
                /\ NextListingMethod
          /\ UNCHANGED <<docs, docIdx>>
       \/ \* the request resolves
          /\ \E st \in {200, 403}, fs \in Listings :
                /\ events' = Append(events, ListingMethod(variant))
                /\ ListDone([status |-> st, files |-> fs])
    /\ UNCHANGED <<envVars, segVars, pureVars, sourceType, urlValid, attempts, fetched,
                   allSections, origin, pages, files, downloaded>>

\* Method 2b: fetch with an explicit Authorization header
ListViaFetch ==
    /\ pc = "list" /\ variant = 3
    /\ \/ \* fetch throws
          /\ events' = Append(events, ListingMethod(variant))
          /\ Caught(listErrorMap(failMessage("network")))
          /\ UNCHANGED <<variant, docs, docIdx>>
       \/ \* 403 whose text includes 'Drive API has not been used'
          /\ events' = events \o <<ListingMethod(variant), EvDriveApiDisabled>>
          /\ Caught(listErrorMap(MsgDriveApiNotEnabled))
          /\ UNCHANGED <<variant, docs, docIdx>>
       \/ \* any other response that is not ok
          /\ events' = Append(events, ListingMethod(variant))
          /\ \E st \in {StrForbidden, StrServerError} :
                Caught(listErrorMap(MsgApiRequestFailed \o st))
          /\ UNCHANGED <<variant, docs, docIdx>>
       \/ \* ok
          /\ events' = Append(events, ListingMethod(variant))
          /\ \E fs \in Listings : ListDone([status |-> 200, files |-> fs])
    /\ UNCHANGED <<envVars, segVars, pureVars, sourceType, urlValid, attempts, fetched,
                   allSections, origin, pages, files, downloaded>>

----------------------------------------------------------------------------
(* Batch processing *)

StrErrorDash == Chars("Error - ")
StrErrorTab == Chars("Error")
StrFailedToProcess == Chars("Failed to process this document: ")
StrCouldBe ==
    Chars("\n\nThis could be due to:\n- Document access restrictions\n- Document format not supported\n- Network connectivity issues\n\nPlease check the document permissions and try again.")
StrAppearsEmpty ==
    Chars("This document appears to be empty or contains no recognizable content.")

\* the synthetic Section of a member document that could not be processed
errorSection(name, message) ==
    [Section(StrErrorDash \o templ(name),
             StrFailedToProcess \o templ(message) \o StrCouldBe, 1, StrErrorTab)
     EXCEPT !.sourceDocument = name]

\* the default Section of a member document without Sections
emptyDocSection(name) ==
    [Section(name, StrAppearsEmpty, 1, StrDocument) EXCEPT !.sourceDocument = name]

\* mutant: the error of a member document aborts the loop
batchCatch_Abort(sections, item, message) == sections

\* the catch inside the batch loop: the failure becomes an error Section
batchCatch(sections, item, message) == Append(sections, errorSection(item.name, message))

\* mutant: the Sections of a member document replace those collected so far
batchCollect_Replace(sections, item, docSections) == docSections

\* mutant: a member document without Sections adds nothing
batchCollect_SkipEmpty(sections, item, docSections) == sections \o docSections

\* what a processed member document adds to allSections
batchCollect(sections, item, docSections) ==
    IF Len(docSections) = 0 THEN Append(sections, emptyDocSection(item.name))
    ELSE sections \o docSections

\* mutant: one failed member document fails the whole batch
noSectionsInAny_OnError(sections) ==
    \E j \in 1..Len(sections) : sections[j].parentTab = StrErrorTab

\* allSections.length === 0
noSectionsInAny(sections) == Len(sections) = 0

\* mutant: the next document is requested before the Sections of this one are
\* collected
BatchAdvance_Overlap(newSections) ==
    IF docIdx < Len(docs)
    THEN /\ docIdx' = docIdx + 1
         /\ variant' = 1
         /\ status' = processingStatus(docs[docIdx + 1].name, docIdx + 1, Len(docs))
         /\ UNCHANGED <<allSections, origin, pc, thrown, pages, files>>
    ELSE /\ allSections' = newSections
         /\ origin' = origin \o [k \in 1..(Len(newSections) - Len(allSections)) |-> docIdx]
         /\ UNCHANGED <<docIdx, variant>>
         /\ pages' = createNotionPagesFromSections(newSections)
         /\ files' = createMarkdownFilesFromFolder(pages')
         /\ status' = StatusOf("success", MsgSuccess)
         /\ pc' = "download"
         /\ UNCHANGED thrown

\* the end of one loop iteration: the next document, or the bundle
BatchAdvance(newSections) ==
    /\ allSections' = newSections
    /\ origin' = origin \o [k \in 1..(Len(newSections) - Len(allSections)) |-> docIdx]
    /\ IF docIdx < Len(docs)
       THEN /\ docIdx' = docIdx + 1
            /\ variant' = 1
            /\ status' = processingStatus(docs[docIdx + 1].name, docIdx + 1, Len(docs))
            /\ UNCHANGED <<pc, thrown, pages, files>>
       ELSE /\ UNCHANGED <<docIdx, variant>>
            /\ IF noSectionsInAny(newSections)
               THEN Caught(MsgNoSectionsAny) /\ UNCHANGED <<pages, files>>
               ELSE /\ pages' = createNotionPagesFromSections(newSections)
                    /\ files' = createMarkdownFilesFromFolder(pages')
                    /\ status' = StatusOf("success", MsgSuccess)
                    /\ pc' = "download"
                    /\ UNCHANGED thrown

\* one document request of processDocumentById and what follows its result
BatchRequest ==
    /\ pc = "batch_req"
    /\ \/ \E kind \in FailKinds :
             /\ attempts' = Append(ladderLog, Attempt(variant, FALSE, kind, DocNone))
             /\ IF ladderNext(variant, kind) = "retry"
                THEN /\ variant' = variant + 1
                     /\ UNCHANGED <<pc, status, thrown, docIdx, allSections, origin, pages,
                                     files>>
                ELSE BatchAdvance(batchCatch(allSections, docs[docIdx], failMessage(kind)))
       \/ \E doc \in DocPool :
             /\ attempts' = Append(ladderLog, Attempt(variant, TRUE, "none", doc))
             /\ BatchAdvance(batchCollect(allSections, docs[docIdx],
                    processDocumentById(doc, docs[docIdx].id, docs[docIdx].name)))
    /\ UNCHANGED <<envVars, segVars, pureVars, sourceType, urlValid, events, fetched, docs, downloaded>>

----------------------------------------------------------------------------
(* Degraded path *)

MsgUnableExtract ==
    Chars("Unable to extract meaningful content. Ensure the document is publicly accessible or published to web.")
MsgCouldNotAccess ==
    Chars("Could not access document. Make sure it is published to web or publicly shared.")
StrDocumentContent == Chars("Document Content")

\* responses shorter than this are rejected (content.length > 100)
MinContentLength == 100

\* number of export URLs (/pub, /export?format=txt)
NumExports == 2

ExportName(v) == IF v = 1 THEN "fetchPub" ELSE "fetchTxt"

\* a fetched export: its length and its text (for the published HTML: the
\* text content of the body once script, style, meta, link and head are removed)
StrLongText == repeat(Chars("Some text. "), 10)
StrLongBlank == repeat(Chars(" \n"), 51)
ExportPool(v) ==
    {[length |-> 5, text |-> Chars("hello")],
     [length |-> Len(StrLongText), text |-> StrLongText],
     [length |-> Len(StrLongBlank), text |-> StrLongBlank]}
    \cup (IF v = 1 THEN {[length |-> 400, text |-> Chars("Hi.There")],
                         [length |-> 300, text |-> <<>>]}
          ELSE {})

\* mutant: the text is kept as fetched, without trim
parseTextContent_Untrimmed(text) ==
    IF trim(text) # <<>>
    THEN <<[Section(StrDocumentContent, text, 1, <<>>) EXCEPT !.parentTab = <<>>]>>
    ELSE <<>>

\* extractStructuredContent / parseTextContent
parseTextContent(text) ==
    IF trim(text) # <<>>
    THEN <<[Section(StrDocumentContent, trim(text), 1, <<>>) EXCEPT !.parentTab = <<>>]>>
    ELSE <<>>

\* processWithFallbackMethod after fetchGoogleDocFallback returned docContent
FallbackDone(docContent) ==
    IF Len(docContent) = 0
    THEN Caught(MsgUnableExtract) /\ UNCHANGED <<allSections, pages, files>>
    ELSE /\ allSections' = docContent
         /\ pages' = createNotionPagesFromSections(docContent)
         /\ files' = createMarkdownFiles(pages')
         /\ status' = StatusOf("success", MsgSuccess)
         /\ pc' = "download"
         /\ UNCHANGED thrown

\* mutant: the first rejected export already fails the fetch
FallbackNext_GiveUp ==
    Caught(MsgCouldNotAccess) /\ UNCHANGED <<variant, allSections, pages, files>>

\* the next export URL, or 'Could not access document'
FallbackNext ==
    IF variant < NumExports
    THEN variant' = variant + 1 /\ UNCHANGED <<pc, status, thrown, allSections, pages, files>>
    ELSE Caught(MsgCouldNotAccess) /\ UNCHANGED <<variant, allSections, pages, files>>

\* one fetch of fetchGoogleDocFallback and what follows its result
FallbackFetch ==
    /\ pc = "fb_fetch"
    /\ events' = Append(events, ExportName(variant))
    /\ \/ \* fetch throws, or the response is not ok
          FallbackNext
       \/ \E content \in ExportPool(variant) :
             IF content.length > MinContentLength
             THEN FallbackDone(parseTextContent(content.text)) /\ UNCHANGED variant
             ELSE FallbackNext
    /\ UNCHANGED <<envVars, segVars, pureVars, sourceType, urlValid, attempts, fetched, docs,
                   docIdx, origin, downloaded>>

----------------------------------------------------------------------------
(* The converter *)

NextRun ==
    \/ InitializeLoad
    \/ InitializeClient
    \/ Submit
    \/ SignInCallback
    \/ AuthWait
    \/ RichRequest
    \/ ListViaGapi
    \/ ListViaFetch
    \/ BatchRequest
    \/ FallbackFetch
    \/ GenerateDownload

SpecRun == InitRun /\ [][NextRun]_vars

----------------------------------------------------------------------------
(* Properties of the Section Segmenter *)

\* what one element adds to the content of the section it falls in
ElPiece(e) ==
    IF e.kind = "paragraph"
    THEN IF trim(extractFormattedTextFromParagraph(e.paragraph)) # <<>>
            /\ getHeadingLevel(e.paragraph) = 0
         THEN extractFormattedTextFromParagraph(e.paragraph) \o NL
         ELSE <<>>
    ELSE IF e.kind = "table" THEN extractTableFromElement(e.table) \o NL \o NL
    ELSE <<>>

RECURSIVE PiecesBetween(_, _, _)
PiecesBetween(c, a, b) ==
    IF a > b THEN <<>> ELSE ElPiece(c[a]) \o PiecesBetween(c, a + 1, b)

\* a paragraph with a heading style and non-blank text
IsHeadingAt(c, i) ==
    /\ c[i].kind = "paragraph"
    /\ getHeadingLevel(c[i].paragraph) > 0
    /\ trim(extractFormattedTextFromParagraph(c[i].paragraph)) # <<>>

\* positions of the headings, ascending
RECURSIVE HeadingIdxFrom(_, _)
HeadingIdxFrom(c, i) ==
    IF i > Len(c) THEN <<>>
    ELSE (IF IsHeadingAt(c, i) THEN <<i>> ELSE <<>>) \o HeadingIdxFrom(c, i + 1)

HeadingIdx(c) == HeadingIdxFrom(c, 1)

\* last position of the span that follows the k-th heading
SpanEnd(c, h, k) == IF k < Len(h) THEN h[k + 1] - 1 ELSE Len(c)

HeadingTitle(c, i) == trim(extractFormattedTextFromParagraph(c[i].paragraph))

SegmentedBody == segCall.fn = "body" /\ segBody.has /\ segBody.hasContent

\* every heading is followed by non-blank content before the next heading
Interleaved(c) ==
    LET h == HeadingIdx(c)
    IN  /\ Len(h) >= 1
        /\ \A k \in 1..Len(h) : trim(PiecesBetween(c, h[k] + 1, SpanEnd(c, h, k))) # <<>>

NoHeadingStyle(c) ==
    \A i \in 1..Len(c) : c[i].kind = "paragraph" => getHeadingLevel(c[i].paragraph) = 0

OnlyParagraphs(c) == \A i \in 1..Len(c) : c[i].kind = "paragraph"

\* C1 as stated: N headings interleaved with body text give exactly N Sections,
\* the i-th titled and levelled after the i-th heading.
C1_AsStated ==
    (/\ SegmentedBody /\ Interleaved(segBody.content)
     /\ OnlyParagraphs(segBody.content) /\ ~startsWith(segParent, StrTab)) =>
        LET c == segBody.content
            h == HeadingIdx(c)
        IN  /\ Len(segOut) = Len(h)
            /\ \A k \in 1..Len(h) :
                  /\ segOut[k].title = HeadingTitle(c, h[k])
                  /\ segOut[k].level = getHeadingLevel(c[h[k]].paragraph)

\* C1 (amended): when every one of the N >= 1 headings is followed by non-blank
\* content, the Segmenter emits one Section per heading, in order, with the
\* heading's level, the heading's trimmed text as title and the content between
\* this heading and the next (the trailing body for the last); they are preceded
\* by one default Section (parent label, level 1) exactly when non-blank content
\* precedes the first heading; a lone Section whose title equals a parent label
\* starting with 'Tab ' is retitled 'Document ...'.
C1_HeadingSections ==
    (SegmentedBody /\ Interleaved(segBody.content)) =>
        LET c == segBody.content
            h == HeadingIdx(c)
            lead == PiecesBetween(c, 1, h[1] - 1)
            off == IF trim(lead) # <<>> THEN 1 ELSE 0
            retitled == Len(h) + off = 1 /\ HeadingTitle(c, h[1]) = segParent
                        /\ startsWith(segParent, StrTab)
        IN  /\ Len(segOut) = Len(h) + off
            /\ off = 1 => /\ segOut[1].title = segParent
                          /\ segOut[1].level = 1
                          /\ segOut[1].content = lead
            /\ \A k \in 1..Len(h) :
                  /\ segOut[k + off].level = getHeadingLevel(c[h[k]].paragraph)
                  /\ segOut[k + off].content = PiecesBetween(c, h[k] + 1, SpanEnd(c, h, k))
                  /\ segOut[k + off].title =
                        IF retitled THEN StrDocumentSp \o SubSeq(segParent, 5, Len(segParent))
                        ELSE HeadingTitle(c, h[k])

C1_Witness ==
    /\ segCall.fn = "body" /\ segBody = TwoHeadingsBody
    /\ Len(segOut) = 2 /\ segOut[2].title = StrDetails
    /\ segOut[2].content = StrMoreInfo \o NL

\* C2 as stated: a paragraph sequence without headings always gives exactly one
\* Section holding every non-empty paragraph's text in order.
C2_AsStated ==
    (SegmentedBody /\ OnlyParagraphs(segBody.content) /\ NoHeadingStyle(segBody.content)) =>
        /\ Len(segOut) = 1
        /\ segOut[1].content = PiecesBetween(segBody.content, 1, Len(segBody.content))

\* C2 (amended): a body without headings that holds at least one non-blank
\* paragraph (or non-blank table) gives exactly one Section, whose content is the
\* text of every non-blank paragraph, each followed by a newline, in document order.
C2_NoHeadingOneSection ==
    (/\ SegmentedBody /\ NoHeadingStyle(segBody.content)
     /\ trim(PiecesBetween(segBody.content, 1, Len(segBody.content))) # <<>>) =>
        /\ Len(segOut) = 1
        /\ segOut[1].content = PiecesBetween(segBody.content, 1, Len(segBody.content))
        /\ segOut[1].level = 1

C2_Witness ==
    /\ segCall.fn = "body" /\ segBody = Body(<<PIntro, PBlank, PStepOne>>)
    /\ Len(segOut) = 1 /\ segOut[1].content = StrIntro \o NL \o StrStepOne \o NL

\* title, level and content of a Section
Tlc(sec) == <<sec.title, sec.level, sec.content>>

\* C9 as stated: Scenario A yields exactly the two heading Sections.
C9_AsStated ==
    (segCall.fn = "body" /\ segBody = ScenarioABody) =>
        /\ Len(segOut) = 2
        /\ Tlc(segOut[1]) = <<StrSetup, 1, StrStepOne \o NL>>
        /\ Tlc(segOut[2]) = <<StrDetails, 2, StrMoreInfo \o NL>>

\* C9 (amended): Scenario A yields three Sections: the default Section of the
\* leading "Intro text" (parent label, level 1, "Intro text\n"), then
\* {Setup, 1, "Step one\n"} and {Details, 2, "More info\n"}.
C9_ScenarioA ==
    (segCall.fn = "body" /\ segBody = ScenarioABody) =>
        /\ Len(segOut) = 3
        /\ Tlc(segOut[1]) = <<segParent, 1, StrIntro \o NL>>
        /\ Tlc(segOut[2]) = <<StrSetup, 1, StrStepOne \o NL>>
        /\ Tlc(segOut[3]) = <<StrDetails, 2, StrMoreInfo \o NL>>

C9_Witness ==
    segCall.fn = "body" /\ segBody = ScenarioABody /\ segParent = StrDoc /\ Len(segOut) = 3

\* no paragraph and no table
EmptyBody(b) ==
    ~b.has \/ ~b.hasContent
    \/ \A i \in 1..Len(b.content) : b.content[i].kind \notin {"paragraph", "table"}

\* C10: a body with zero paragraphs and zero tables, or a sub-document without a
\* body, yields zero Sections from extractSectionsFromBody and from
\* extractSectionsFromTab.
C10_EmptyBodyNoSections ==
    /\ (segCall.fn = "body" /\ EmptyBody(segBody)) => segOut = <<>>
    /\ (segCall.fn = "tab" /\ (EmptyBody(segBody) \/ segCall.tabKind = "none"))
           => segOut = <<>>

C10_Witness ==
    /\ segCall.fn = "tab" /\ segCall.tabKind = "documentTab"
    /\ segBody = Body(<<OtherEl>>) /\ segOut = <<>>

----------------------------------------------------------------------------
(* Properties of the converter *)

Last(seq) == seq[Len(seq)]

InLadder == pc \in {"rich_req", "batch_req"}

\* a ladder whose every variant failed
LadderFailed(log) == Len(log) = NumVariants /\ ~Last(log).ok

\* the Google API configuration as processDocument reads it
Configured == clientId /\ gapiClient

DegradedEvents == {"degraded", "fetchPub", "fetchTxt"}
RichEvents == {"rich", "signIn"}

\* C3: in a batch, when the last request variant of a member document fails,
\* the step appends exactly one Section to allSections, titled with the
\* document's name, holding the rendered failure message and marked with the
\* Error tab; nothing is thrown, and the loop goes on to the next document or,
\* after the last one, to the bundle.
C3_BatchIsolation ==
    [][(pc = "batch_req" /\ variant = NumVariants /\ LadderFailed(attempts'))
       => LET item == docs[docIdx]
              message == failMessage(Last(attempts').kind)
          IN  /\ Len(allSections') = Len(allSections) + 1
              /\ SubSeq(allSections', 1, Len(allSections)) = allSections
              /\ includes(Last(allSections').title, item.name)
              /\ includes(Last(allSections').content, templ(message))
              /\ Last(allSections').parentTab = StrErrorTab
              /\ Last(allSections').sourceDocument = item.name
              /\ thrown' = NoThrown
              /\ status'.type # "error"
              /\ docs' = docs
              /\ IF docIdx < Len(docs)
                 THEN pc' = "batch_req" /\ docIdx' = docIdx + 1 /\ variant' = 1
                 ELSE pc' = "download" /\ Len(files') >= 1]_vars

\* a batch whose first document failed and whose second document was
\* converted is bundled
C3_Witness ==
    /\ pc = "download" /\ sourceType = "drive-folder" /\ Len(docs) = 2
    /\ Len(allSections) >= 2
    /\ allSections[1] = errorSection(docs[1].name, failMessage("network"))
    /\ Last(allSections).parentTab # StrErrorTab
    /\ Last(attempts).ok

\* the Sections a fetched member document leaves at the end of allSections
BatchTail(doc, item) ==
    LET docSections == processDocumentById(doc, item.id, item.name)
    IN  IF Len(docSections) = 0 THEN <<emptyDocSection(item.name)>> ELSE docSections

EndsWith(seq, tail) ==
    Len(seq) >= Len(tail) /\ SubSeq(seq, Len(seq) - Len(tail) + 1, Len(seq)) = tail

\* the member document the logged ladder belongs to
LadderItem == docs[IF pc = "batch_req" /\ variant = 1 THEN docIdx - 1 ELSE docIdx]

\* C4: the requests of one ladder are variants 1, 2, ... in this order, at
\* most NumVariants of them; every request before the last one failed; a
\* failure of any kind before the last variant leaves the ladder at the next
\* variant; after a success no further variant is requested and the segmented
\* document is the one that request returned.
C4_LadderOrder ==
    /\ Len(attempts) <= NumVariants
    /\ \A i \in 1..Len(attempts) : attempts[i].variant = i
    /\ \A i \in 1..(Len(attempts) - 1) : ~attempts[i].ok
    /\ (InLadder /\ variant > 1) => (Len(attempts) = variant - 1 /\ ~Last(attempts).ok)
    /\ (attempts # <<>> /\ ~Last(attempts).ok /\ Last(attempts).variant < NumVariants)
          => (InLadder /\ variant = Last(attempts).variant + 1)
    /\ (attempts # <<>> /\ Last(attempts).ok)
          => /\ pc # "rich_req"
             /\ pc = "batch_req" => variant = 1
             /\ IF sourceType = "google-doc"
                THEN /\ fetched = Last(attempts).doc
                     /\ allSections # <<>>
                           => allSections = extractSectionsFromGoogleDoc(Last(attempts).doc)
                ELSE EndsWith(allSections, BatchTail(Last(attempts).doc, LadderItem))

\* the third variant succeeded after two failures and its document is converted
C4_Witness ==
    /\ sourceType = "google-doc" /\ pc = "download"
    /\ Len(attempts) = 3 /\ attempts[3].ok /\ attempts[3].doc = DocNotes
    /\ allSections = extractSectionsFromGoogleDoc(DocNotes)

\* C5: a single-document run enters the rich path when the configuration is
\* present at submit time and the degraded path otherwise; a run that entered
\* one path never performs a step of the other, also not after a failure.
C5_OnePath ==
    /\ []((sourceType = "google-doc" /\ events # <<>>)
            => /\ events[1] \in {"rich", "degraded"}
               /\ events[1] = "rich"
                     => \A i \in 1..Len(events) : events[i] \notin DegradedEvents
               /\ events[1] = "degraded"
                     => /\ attempts = <<>>
                        /\ \A i \in 1..Len(events) : events[i] \notin RichEvents)
    /\ [][(pc \in {"idle", "done"} /\ pc' \notin {"idle", "done"}
           /\ sourceType' = "google-doc")
          => /\ events'[1] = (IF Configured THEN "rich" ELSE "degraded")
             /\ pc' = "fb_fetch" <=> ~Configured]_vars

\* a rich run that failed at every variant made no degraded fetch
C5_Witness ==
    /\ sourceType = "google-doc" /\ pc = "done" /\ events # <<>> /\ events[1] = "rich"
    /\ LadderFailed(attempts) /\ status.type = "error"

\* C6: in a single-document run whose every request variant failed, the
\* last failure is caught by processDocument, which shows 'Error: ' followed
\* by its rendered message; there are no Sections, no pages, no files and no
\* download.
C6_AllVariantsFail ==
    (sourceType = "google-doc" /\ LadderFailed(attempts))
       => /\ pc = "done"
          /\ thrown = [has |-> TRUE, msg |-> failMessage(Last(attempts).kind)]
          /\ status = StatusOf("error", MsgErrorPrefix
                                        \o templ(failMessage(Last(attempts).kind)))
          /\ allSections = <<>> /\ pages = <<>> /\ files = <<>>
          /\ ~downloaded

C6_Witness ==
    /\ sourceType = "google-doc" /\ LadderFailed(attempts)
    /\ Last(attempts).kind = "schema"
    /\ status.msg = MsgErrorPrefix \o failMessage("schema")

\* C7: when the folder listing is answered by the 403 that names the unused
\* Drive API, the run ends with the error DRIVE_API_NOT_ENABLED, not wrapped
\* into 'Unable to access folder', and the Drive API remediation is shown
\* instead of 'Error: ...'.
C7_DriveApiNotEnabled ==
    (events # <<>> /\ Last(events) = EvDriveApiDisabled)
       => /\ pc = "done"
          /\ thrown = [has |-> TRUE, msg |-> MsgDriveApiNotEnabled]
          /\ ~includes(thrown.msg, Chars("Unable to access folder"))
          /\ status = StatusOf("error", MsgDriveApiNeeded)
          /\ ~startsWith(status.msg, MsgErrorPrefix)
          /\ docs = <<>> /\ allSections = <<>>

C7_Witness ==
    /\ sourceType = "drive-folder" /\ pc = "done"
    /\ events = <<"folder", "list1", "list2a", "list2b", EvDriveApiDisabled>>
    /\ thrown.msg = MsgDriveApiNotEnabled

\* C8: a folder run submitted without the Google API configuration ends at
\* once with the configuration error: no sign-in, no listing request and no
\* document request was made.
C8_FolderNeedsConfiguration ==
    (sourceType = "drive-folder" /\ urlValid /\ ~Configured)
       => /\ pc = "done"
          /\ thrown = [has |-> TRUE, msg |-> MsgConfigRequired]
          /\ status = StatusOf("error", MsgErrorPrefix \o MsgConfigRequired)
          /\ events = <<>> /\ attempts = <<>> /\ docs = <<>>
          /\ ~isSignedIn

C8_Witness ==
    /\ sourceType = "drive-folder" /\ urlValid /\ ~Configured /\ clientId
    /\ pc = "done" /\ thrown.msg = MsgConfigRequired

----------------------------------------------------------------------------
(* Properties of tables, batches and the Page Renderer *)

\* the body is one table and nothing else
SingleTableBody ==
    SegmentedBody /\ Len(segBody.content) = 1 /\ segBody.content[1].kind = "table"

\* the title the default Section ends with: the parent label, relabelled
\* when it is a 'Tab ' placeholder
DefaultTitle(parentName) ==
    IF startsWith(parentName, StrTab)
    THEN replaceFirst(parentName, StrTab, StrDocumentSp) ELSE parentName

\* C11 as stated: a body that is a single table gives exactly one Section,
\* titled with the parent label, of level 1, whose content is the rendered
\* table followed by two newlines.
C11_AsStated ==
    SingleTableBody =>
        /\ Len(segOut) = 1
        /\ segOut[1].title = segParent
        /\ segOut[1].level = 1
        /\ segOut[1].content = extractTableFromElement(segBody.content[1].table) \o NL \o NL

\* C11 (amended): a body that is a single table with at least one row gives
\* exactly one Section of level 1 whose content is the rendered table followed
\* by two newlines and whose title is the parent label, or its 'Document N'
\* relabelling when the label is a 'Tab N' placeholder; a single table without
\* rows gives no Section.
C11_SingleTable ==
    SingleTableBody =>
        IF segBody.content[1].table.tableRows # <<>>
        THEN /\ Len(segOut) = 1
             /\ segOut[1].title = DefaultTitle(segParent)
             /\ segOut[1].level = 1
             /\ segOut[1].parentTab = segParent
             /\ segOut[1].content
                   = extractTableFromElement(segBody.content[1].table) \o NL \o NL
        ELSE segOut = <<>>

\* Scenario C: the 2 x 2 table under the label 'Doc'
C11_Witness ==
    /\ segCall.fn = "body" /\ segBody = Body(<<Table1>>) /\ segParent = StrDoc
    /\ Len(segOut) = 1 /\ segOut[1].title = StrDoc
    /\ segOut[1].content = Chars("| x | y |\n| --- | --- |\n| 1 |  |\n\n\n")

\* a batch run whose loop over the listed documents has ended
BatchDone == sourceType = "drive-folder" /\ docs # <<>> /\ pc \in {"download", "done"}

\* positions in allSections of the Sections collected for the i-th listed document
OriginIdx(i) == SelectSeq(positions(allSections), LAMBDA j : origin[j] = i)

IsErrorSection(section) == section.parentTab = StrErrorTab

\* the name createMarkdownFilesFromFolder gives the file of a Section
FolderFileName(section) ==
    cleanName(section.sourceDocument) \o Chars("--") \o cleanName(section.title) \o StrMd

\* some output file carries the Section: its name and its heading line
HasEntry(section) ==
    \E f \in 1..Len(files) :
        /\ files[f].name = FolderFileName(section)
        /\ startsWith(files[f].content,
                      repeat(<<"#">>, section.level) \o <<" ">> \o section.title \o NL)

\* C12: when the loop of a batch run has ended, the run is a success (no error
\* was thrown, the success status is shown), there are as many output files as
\* collected Sections, and every listed document has at least one Section and
\* every one of its Sections has an output file; a document contributes either
\* Sections of its own or exactly one error Section, and a document whose last
\* request variant failed contributes the error Section.
C12_EveryDocumentHasEntries ==
    BatchDone =>
        /\ thrown = NoThrown
        /\ status = StatusOf("success", MsgSuccess)
        /\ pc = "done" => downloaded
        /\ Len(files) = Len(allSections)
        /\ Len(origin) = Len(allSections)
        /\ \A i \in 1..Len(docs) :
              /\ OriginIdx(i) # <<>>
              /\ \A k \in 1..Len(OriginIdx(i)) : HasEntry(allSections[OriginIdx(i)[k]])
              /\ (\E k \in 1..Len(OriginIdx(i)) : IsErrorSection(allSections[OriginIdx(i)[k]]))
                    => Len(OriginIdx(i)) = 1
        /\ LadderFailed(attempts)
              => /\ OriginIdx(Len(docs)) = <<Len(allSections)>>
                 /\ IsErrorSection(Last(allSections))

\* Scenario D: three documents, the second one failed, three entries
C12_Witness ==
    /\ BatchDone /\ pc = "done" /\ docs = ScenarioDListing
    /\ origin = <<1, 2, 3>>
    /\ ~IsErrorSection(allSections[1])
    /\ allSections[2] = errorSection(StrBeta, failMessage("network"))
    /\ ~IsErrorSection(allSections[3])
    /\ Len(files) = 3
    /\ files[2].name = Chars("beta--error---beta.md")

\* a batch run whose loop over the listed documents has begun
InBatch == sourceType = "drive-folder" /\ docs # <<>> /\ docIdx >= 1

\* the Section was collected from a document itself
YieldedContent(j) == ~IsErrorSection(allSections[j])

\* C13: in a batch run the failure of a member document is surfaced inline: its
\* error Section names the document, carries the failure text after the fixed
\* preamble, and, once the loop has ended, has an output file holding that
\* text.  The batch as a whole fails (an error is thrown and shown, nothing is
\* rendered) only if no collected Section came from a document itself; a run
\* in which some document yielded content ends in success.
C13_InlineErrors ==
    InBatch =>
        /\ \A j \in 1..Len(allSections) :
              IsErrorSection(allSections[j]) =>
                  /\ allSections[j].title = StrErrorDash \o docs[origin[j]].name
                  /\ allSections[j].sourceDocument = docs[origin[j]].name
                  /\ \E kind \in FailKinds :
                        startsWith(allSections[j].content,
                                   StrFailedToProcess \o failMessage(kind))
                  /\ BatchDone =>
                        \E f \in 1..Len(files) :
                            /\ files[f].name = FolderFileName(allSections[j])
                            /\ includes(files[f].content, trim(allSections[j].content))
        /\ (thrown.has \/ status.type = "error") =>
              /\ \A j \in 1..Len(allSections) : ~YieldedContent(j)
              /\ files = <<>> /\ pages = <<>>
        /\ (BatchDone /\ \E j \in 1..Len(allSections) : YieldedContent(j)) =>
              /\ status = StatusOf("success", MsgSuccess)
              /\ files # <<>>

\* a batch in which every document failed still ends in success, with one
\* error file per document
C13_Witness ==
    /\ BatchDone /\ pc = "done" /\ Len(docs) = 2 /\ origin = <<1, 2>>
    /\ IsErrorSection(allSections[1]) /\ IsErrorSection(allSections[2])
    /\ thrown = NoThrown
    /\ status = StatusOf("success", MsgSuccess)
    /\ Len(files) = 2
    /\ includes(files[1].content, failMessage("auth"))

StrSourceLine(name) == Chars("*Source: ") \o name \o <<"*", "\n">>

\* the output files of the documents called `name`, and their Sections
FilesOf(name) == SelectSeq(files, LAMBDA file : includes(file.content, StrSourceLine(name)))
SectionsOf(name) == SelectSeq(allSections, LAMBDA section : section.sourceDocument = name)

\* C14 as stated: the output files of a batch follow the collected Sections,
\* which are in listing order and, within a document, in section order
C14_AsStated ==
    BatchDone =>
        /\ Len(files) = Len(allSections)
        /\ \A f \in 1..Len(files) : files[f].name = FolderFileName(allSections[f])

\* C14, what the code keeps: the files of the documents of one name are in
\* the order of those documents' Sections, and when the listed names are
\* distinct and none of them is a canonical array index the whole file list is
\* in listing order, then section order.
C14_OrderWithinName ==
    BatchDone =>
        /\ \A i \in 1..Len(docs) :
              LET name == docs[i].name
              IN  /\ Len(FilesOf(name)) = Len(SectionsOf(name))
                  /\ \A k \in 1..Len(FilesOf(name)) :
                        FilesOf(name)[k].name = FolderFileName(SectionsOf(name)[k])
        /\ ((\A i, j \in 1..Len(docs) : docs[i].name = docs[j].name => i = j)
            /\ (\A i \in 1..Len(docs) : isNameKey(docs[i].name)))
              => \A f \in 1..Len(files) : files[f].name = FolderFileName(allSections[f])

\* a document named 2024 is listed second and its files come first
C14_Witness ==
    /\ BatchDone /\ docs = DatedListing
    /\ Len(allSections) = 3 /\ origin = <<1, 1, 2>>
    /\ Len(files) = 3
    /\ startsWith(files[1].name, Chars("2024--"))
    /\ startsWith(files[2].name, Chars("alpha--"))
    /\ startsWith(files[3].name, Chars("alpha--"))
    /\ files[2].name = FolderFileName(allSections[1])
    /\ files[3].name = FolderFileName(allSections[2])

Rendered == pureCall = "createNotionPagesFromSections"

\* the text ends with a newline that no newline precedes
OneTrailingNewline(text) ==
    /\ text # <<>> /\ text[Len(text)] = "\n"
    /\ Len(text) >= 2 => text[Len(text) - 1] # "\n"

\* the Section has content left after trimming
HasInk(section) == \E i \in 1..Len(section.content) : section.content[i] \notin WS

\* creating the page of the Section throws
RenderFails(section) == section.level < 0

C16_FallbackUnit ==
    Rendered =>
        /\ Len(pureOut.pages) = Len(pureIn.sections)
        /\ \A i \in 1..Len(pureIn.sections) :
              LET section == pureIn.sections[i]
              IN  /\ pureOut.pages[i].title = section.title
                  /\ IF RenderFails(section)
                     THEN pureOut.pages[i].content =
                              Chars("# ") \o section.title \o NL \o NL \o section.content
                     ELSE pureOut.pages[i] = createNotionPageFromSection(section)

\* a Section of negative level between two Sections that render
C16_Witness ==
    /\ Rendered
    /\ pureIn.sections = <<Section(StrTitle, Chars("Body"), 0 - 1, StrDoc),
                           Section(StrTitle, Chars("Body"), 2, StrDoc)>>
    /\ pureOut.pages[1].content = Chars("# Title\n\nBody")
    /\ pureOut.pages[2].content = Chars("## Title\n\nBody\n")

\* C17: the clean-up chain of the Page Renderer is idempotent: applied to its
\* own result it returns that result unchanged, and the result has no edge
\* whitespace, no three newlines in a row, no period directly before an
\* uppercase letter and no two blanks in a row.
C17_NormalizeIdempotent ==
    pureCall = "normalizeContent" =>
        LET text == pureOut.text
        IN  /\ pureOut.again = text
            /\ text # <<>> => (text[1] \notin WS /\ text[Len(text)] \notin WS)
            /\ \A i \in 1..Len(text) :
                  /\ i + 2 <= Len(text)
                        => ~(text[i] = "\n" /\ text[i + 1] = "\n" /\ text[i + 2] = "\n")
                  /\ i + 1 <= Len(text)
                        => /\ ~(text[i] = "." /\ isUpper(text[i + 1]))
                           /\ ~(text[i] \in {" ", "\t"} /\ text[i + 1] \in {" ", "\t"})

\* a content on which every step of the chain acts
C17_Witness ==
    /\ pureCall = "normalizeContent"
    /\ pureIn.content = Chars("\tA.B\n\n\n\n\nC  .D. ")
    /\ pureOut.text = Chars("A. B\n\nC . D.")
    /\ pureOut.again = pureOut.text

\* String.prototype.split on a one-character separator
splitOn(s, sep) ==
    LET cuts == SelectSeq(positions(s), LAMBDA i : s[i] = sep)
    IN  [k \in 1..(Len(cuts) + 1) |->
            SubSeq(s, IF k = 1 THEN 1 ELSE cuts[k - 1] + 1,
                      IF k <= Len(cuts) THEN cuts[k] - 1 ELSE Len(s))]

\* the lines of a text that ends each line with a newline
LinesOf(text) ==
    LET pieces == splitOn(text, "\n")
    IN  IF pieces[Len(pieces)] = <<>> THEN SubSeq(pieces, 1, Len(pieces) - 1) ELSE pieces

\* the cells of one line: the pieces between the pipes, trimmed
ParseRow(line) ==
    LET pieces == splitOn(line, "|")
    IN  [k \in 1..(Len(pieces) - 2) |-> trim(pieces[k + 1])]

ParseTable(text) == [k \in 1..Len(LinesOf(text)) |-> ParseRow(LinesOf(text)[k])]

\* the trimmed cell texts of a row of the input
RowTexts(row) == [c \in 1..Len(row) |-> trim(cellText(row[c]))]

\* the line of the output that holds the i-th row of the input
LineOfRow(i) == IF i = 1 THEN 1 ELSE i + 1

RoundTrips(table, text) ==
    /\ Len(ParseTable(text)) = Len(table.tableRows) + 1
    /\ \A i \in 1..Len(table.tableRows) :
          ParseTable(text)[LineOfRow(i)] = RowTexts(table.tableRows[i])

\* no cell text of the table holds a pipe or a line break once trimmed
PlainCells(table) ==
    \A i \in 1..Len(table.tableRows) : \A c \in 1..Len(table.tableRows[i]) :
        \A k \in 1..Len(RowTexts(table.tableRows[i])[c]) :
            RowTexts(table.tableRows[i])[c][k] \notin {"|", "\n"}

TableRendered == pureCall = "extractTableFromElement"

\* C18 as stated: every table round-trips, with one more row
C18_AsStated == TableRendered => RoundTrips(pureIn.table, pureOut.text)

\* C18, what the code keeps: a table with at least one row whose trimmed cell
\* texts hold neither a pipe nor a line break round-trips, and the extra row,
\* the second line, has one '---' cell per cell of the first row; a table
\* without rows renders as the empty string.
C18_PlainTableRoundTrip ==
    TableRendered =>
        /\ (pureIn.table.tableRows # <<>> /\ PlainCells(pureIn.table)) =>
              /\ RoundTrips(pureIn.table, pureOut.text)
              /\ ParseTable(pureOut.text)[2] =
                    [c \in 1..Len(pureIn.table.tableRows[1]) |-> <<"-", "-", "-">>]
        /\ pureIn.table.tableRows = <<>> => pureOut.text = <<>>

\* a two-row table of plain cells, rendered
C18_Witness ==
    /\ TableRendered
    /\ pureIn.table.tableRows = <<<<Cell(<<" ", "x", "\n">>), Cell(<<>>)>>,
                                  <<Cell(<<" ", "x", "\n">>)>>>>
    /\ pureOut.text = Chars("| x |  |\n| --- | --- |\n| x |\n")
    /\ ParseTable(pureOut.text) = <<<<<<"x">>, <<>>>>, <<Chars("---"), Chars("---")>>, <<<<"x">>>>>>

Formatted == pureCall = "applyTextFormatting"

\* C19: applyTextFormatting wraps in the fixed order bold, italic, underline,
\* strikethrough, link: the bold markers stand directly around the text, and
\* when the link URL is present and non-empty the result is '[' + the wrapped
\* text + '](' + url + ')'; without a URL there is no link wrap.  Bold text
\* with the link https://x gives [**hi**](https://x).
C19_WrapOrder ==
    Formatted =>
        LET text == pureIn.textRun.content
            style == pureIn.textRun.textStyle
            out == pureOut.text
            bolded == IF style.bold THEN Chars("**") \o text \o Chars("**") ELSE text
            italic == IF style.italic THEN Chars("*") \o bolded \o Chars("*") ELSE bolded
            under == IF style.underline THEN Chars("<u>") \o italic \o Chars("</u>") ELSE italic
            struck == IF style.strikethrough THEN Chars("~~") \o under \o Chars("~~") ELSE under
        IN  /\ style.bold => includes(out, Chars("**") \o text \o Chars("**"))
            /\ style.linkUrl # <<>> =>
                  /\ out = <<"[">> \o struck \o Chars("](") \o style.linkUrl \o <<")">>
                  /\ startsWith(out, <<"[">>)
                  /\ EndsWith(out, Chars("](") \o style.linkUrl \o <<")">>)
            /\ style.linkUrl = <<>> => out = struck
            /\ (text = Chars("hi") /\ style = [NoStyle EXCEPT !.bold = TRUE, !.linkUrl = StrLink])
                  => out = Chars("[**hi**](https://x)")

\* Scenario E
C19_Witness ==
    /\ Formatted
    /\ pureIn.textRun = Run(Chars("hi"), [NoStyle EXCEPT !.bold = TRUE, !.linkUrl = StrLink])
    /\ pureOut.text = Chars("[**hi**](https://x)")

RunRendered == pureCall = "extractFormattedTextFromParagraph"

\* C20: a text run whose text is empty adds nothing to the formatted text of
\* its paragraph, whatever its bold, italic, underline, strikethrough and link
\* flags are; a run with text is rendered with its wraps.
C20_EmptyRun ==
    RunRendered =>
        /\ pureIn.textRun.content = <<>> => pureOut.text = <<>>
        /\ pureIn.textRun.content # <<>> => includes(pureOut.text, pureIn.textRun.content)

\* an empty run that carries every flag and a link
C20_Witness ==
    /\ RunRendered
    /\ pureIn.textRun = Run(<<>>, [bold |-> TRUE, italic |-> TRUE, underline |-> TRUE,
                                   strikethrough |-> TRUE, linkUrl |-> StrLink])
    /\ pureOut.text = <<>>

----------------------------------------------------------------------------
(* Properties of rendering, the degraded path, Section content and names *)

DegradedEnded ==
    /\ sourceType = "google-doc" /\ events # <<>> /\ events[1] = "degraded"
    /\ pc \in {"download", "done"}

\* C22: a run on the degraded path that ended without an error has exactly one
\* Section: level 1, titled 'Document Content', without parent tab, whose
\* content is the whole trimmed text of the export fetched last (never empty),
\* and one page and one file for it; a run that ended with an error has no
\* Section.
C22_DegradedOneSection ==
    DegradedEnded =>
        IF thrown = NoThrown
        THEN /\ Len(allSections) = 1
             /\ allSections[1].level = 1
             /\ allSections[1].title = StrDocumentContent
             /\ allSections[1].parentTab = <<>>
             /\ allSections[1].content # <<>>
             /\ Last(events) = ExportName(variant)
             /\ \E export \in ExportPool(variant) :
                   /\ export.length > MinContentLength
                   /\ allSections[1].content = trim(export.text)
             /\ Len(pages) = 1 /\ Len(files) = 1
             /\ status = StatusOf("success", MsgSuccess)
        ELSE allSections = <<>> /\ pages = <<>> /\ files = <<>>

\* the published page was refused and the plain-text export was converted
C22_Witness ==
    /\ DegradedEnded /\ pc = "done" /\ thrown = NoThrown
    /\ events = <<"degraded", "fetchPub", "fetchTxt">>
    /\ Len(allSections) = 1
    /\ allSections[1].content = trim(StrLongText)
    /\ allSections[1].content # StrLongText
    /\ files[1].name = Chars("document-content.md")

Segmented == segCall.fn \in {"body", "tab"}

\* C23: every Section returned by the segmenter, for a body or for a tab, has
\* content that is not empty after trimming.
C23_NoEmptySection ==
    Segmented => \A i \in 1..Len(segOut) : trim(segOut[i].content) # <<>>

\* a heading directly followed by another heading is not surfaced
C23_Witness ==
    /\ segCall.fn = "body" /\ segParent = StrDoc
    /\ segBody = Body(<<HSetup, HDetails, PStepOne>>)
    /\ segOut = <<Section(StrDetails, StrStepOne \o NL, 2, StrDoc)>>

Blank == {" ", "\t"}

\* the first line of the text is blank: only blanks before its first newline
BeginsWithBlankLine(text) ==
    \E n \in 1..Len(text) : text[n] = "\n" /\ \A k \in 1..(n - 1) : text[k] \in Blank

\* the last line of the text is blank: the newline that ends the text is
\* preceded, after at most blanks, by another newline
EndsWithBlankLine(text) ==
    /\ Len(text) >= 2 /\ text[Len(text)] = "\n"
    /\ \E m \in 1..(Len(text) - 1) :
          text[m] = "\n" /\ \A k \in (m + 1)..(Len(text) - 1) : text[k] \in Blank

\* C24 as stated: no Section returned by the segmenter has content that
\* begins or ends with a blank line
C24_AsStated ==
    Segmented =>
        \A i \in 1..Len(segOut) :
            ~BeginsWithBlankLine(segOut[i].content) /\ ~EndsWithBlankLine(segOut[i].content)

\* the Section of a heading followed by a table ends with two blank lines
C24_Witness ==
    /\ segCall.fn = "body" /\ segParent = StrDoc
    /\ segBody = Body(<<HSetup, Table1>>)
    /\ Len(segOut) = 1 /\ segOut[1].title = StrSetup
    /\ segOut[1].content = Chars("| x | y |\n| --- | --- |\n| 1 |  |\n\n\n")
    /\ EndsWithBlankLine(segOut[1].content)

Named == pureCall \in {"createMarkdownFiles", "createMarkdownFilesFromFolder"}
NonBlankTitle(page) == trim(page.title) # <<>>
KeptPages == SelectSeq(pureIn.pages, NonBlankTitle)
NameOf(page) ==
    (IF pureCall = "createMarkdownFilesFromFolder"
     THEN cleanName(IF page.sourceDocument # <<>> THEN page.sourceDocument
                    ELSE StrUnknownDocument) \o <<"-", "-">>
     ELSE <<>>)
    \o cleanName(page.title) \o StrMd

\* C25 (as stated): both file builders drop every page whose title is empty or
\* blank, and every file they emit has a non-empty title part in its name.
C25_AsStated ==
    Named =>
        /\ Len(pureOut.files) = Len(KeptPages)
        /\ \A k \in 1..Len(pureOut.files) :
               \E i \in 1..Len(KeptPages) :
                   /\ pureOut.files[k].name = NameOf(KeptPages[i])
                   /\ cleanName(KeptPages[i].title) # <<>>

\* C25: both file builders drop every page whose title is empty or blank and
\* emit exactly one file for every other page, named after the cleaned title;
\* the cleaned title itself may be empty.
C25_BlankTitlesDropped ==
    Named =>
        /\ Len(pureOut.files) = Len(KeptPages)
        /\ \A k \in 1..Len(pureOut.files) :
               \E i \in 1..Len(KeptPages) : pureOut.files[k].name = NameOf(KeptPages[i])
        /\ \A i \in 1..Len(KeptPages) :
               \E k \in 1..Len(pureOut.files) : pureOut.files[k].name = NameOf(KeptPages[i])

\* a page with a blank title is dropped, and a page whose title has no letter
\* or digit is written to a file named '.md'
C25_Witness ==
    /\ pureCall = "createMarkdownFiles"
    /\ pureIn.pages = <<Page(Chars(" \n"), Chars("# x\n"), StrDoc, <<>>),
                        Page(Chars("!?"), Chars("# x\n"), StrDoc, <<>>)>>
    /\ Len(pureOut.files) = 1
    /\ pureOut.files[1].name = StrMd

NamesCollide == \E i, j \in 1..Len(files) : i < j /\ files[i].name = files[j].name
CallerInformed == thrown # NoThrown \/ status.type # "success" \/ status.msg # MsgSuccess

\* C26 (as stated): the files handed to generateDownload never hold two files
\* of the same name unless the caller was told so, i.e. unless the run ended
\* otherwise than with the plain success status.
C26_AsStated == downloaded => (NamesCollide => CallerInformed)

\* a batch of two documents named alike, whose Sections are titled alike: the
\* files of the second carry the names of the files of the first, and the run
\* reports plain success
C26_Witness ==
    /\ downloaded /\ sourceType = "drive-folder" /\ docs = FolderTwins(2)
    /\ Len(files) = 4 /\ files[1].name = files[3].name /\ files[2].name = files[4].name
    /\ status = [type |-> "success", msg |-> MsgSuccess] /\ thrown = NoThrown

ParaText(el) == extractFormattedTextFromParagraph(el.paragraph)
\* elements the loop does not skip
Seen(el) == el.kind = "table" \/ (el.kind = "paragraph" /\ trim(ParaText(el)) # <<>>)
IsHeadingEl(el) ==
    el.kind = "paragraph" /\ trim(ParaText(el)) # <<>> /\ getHeadingLevel(el.paragraph) > 0
IsTextEl(el) ==
    el.kind = "paragraph" /\ trim(ParaText(el)) # <<>> /\ getHeadingLevel(el.paragraph) = 0
\* content[i] is body text and nothing before it is a heading, a table or text
LeadsBody(content, i) == IsTextEl(content[i]) /\ \A j \in 1..(i - 1) : ~Seen(content[j])

\* the Sections after the first are Sections of headings that follow
\* content[i], in the order of those headings
HeadingsFollow(content, i, sections) ==
    \E f \in [2..Len(sections) -> (i + 1)..Len(content)] :
        /\ \A k \in 2..Len(sections) :
               /\ IsHeadingEl(content[f[k]])
               /\ sections[k].title = trim(ParaText(content[f[k]]))
               /\ sections[k].level = getHeadingLevel(content[f[k]].paragraph)
        /\ \A k, l \in 2..Len(sections) : k < l => f[k] < f[l]

LeadSection(content, i, title) ==
    /\ Len(segOut) >= 1
    /\ segOut[1].title = title
    /\ segOut[1].level = 1
    /\ segOut[1].parentTab = segParent
    /\ startsWith(segOut[1].content, ParaText(content[i]) \o NL)
    /\ HeadingsFollow(content, i, segOut)

\* C27 (as stated): body text before the first heading of a body becomes the
\* first Section returned, titled with the parent label, of level 1, its content
\* beginning with that text; the Sections after it are those of the headings
\* that follow.
C27_AsStated ==
    segCall.fn = "body" =>
        \A i \in 1..Len(segBody.content) :
            LeadsBody(segBody.content, i) => LeadSection(segBody.content, i, segParent)

\* C27 (amended): as above, except that the default Section is titled
\* 'Document ...' when it is the only Section returned and the parent label
\* begins with 'Tab '.
C27_LeadingText ==
    segCall.fn = "body" =>
        \A i \in 1..Len(segBody.content) :
            LeadsBody(segBody.content, i) =>
                LeadSection(segBody.content, i,
                            IF Len(segOut) = 1 /\ startsWith(segParent, StrTab)
                            THEN StrDocumentSp \o SubSeq(segParent, Len(StrTab) + 1, Len(segParent))
                            ELSE segParent)

\* intro text, then a heading with its text: the default Section comes first
\* and keeps the parent label, because it is not the only Section
C27_Witness ==
    /\ segCall.fn = "body" /\ segParent = StrTab1
    /\ segBody = Body(<<PIntro, HSetup, PStepOne>>)
    /\ segOut = <<Section(StrTab1, StrIntro \o NL, 1, StrTab1),
                  Section(StrSetup, StrStepOne \o NL, 1, StrTab1)>>

\* all seen content, in traversal order: non-blank paragraphs (headings
\* included) with one newline, tables with two
RECURSIVE SeenText(_)
SeenText(content) ==
    IF content = <<>> THEN <<>>
    ELSE (IF Head(content).kind = "table"
          THEN extractTableFromElement(Head(content).table) \o NL \o NL
          ELSE IF Seen(Head(content)) THEN ParaText(Head(content)) \o NL
          ELSE <<>>)
         \o SeenText(Tail(content))

\* the loop and the final push emit nothing: no body text with ink and no
\* table with a row
NothingEmitted(content) ==
    \A i \in 1..Len(content) :
        /\ ~IsTextEl(content[i])
        /\ content[i].kind = "table" => trim(extractTableFromElement(content[i].table)) = <<>>

DocSegmented == segCall.fn = "doc"

\* every tab of a tab tree, each followed by all of its descendants
RECURSIVE everyTab(_)
everyTab(tabs) ==
    IF tabs = <<>> THEN <<>>
    ELSE <<Head(tabs)>> \o everyTab(Head(tabs).childTabs) \o everyTab(Tail(tabs))

\* the tabs of a tab tree down to a depth, in the same order
RECURSIVE tabsToDepth(_, _)
tabsToDepth(tabs, depth) ==
    IF tabs = <<>> \/ depth = 0 THEN <<>>
    ELSE <<Head(tabs)>> \o tabsToDepth(Head(tabs).childTabs, depth - 1)
         \o tabsToDepth(Tail(tabs), depth)

\* the Sections of a list of tabs, concatenated, the i-th tab segmented as
\* tab number i
SectionsInOrder(tabList, documentTitle) ==
    LET RECURSIVE from(_)
        from(i) == IF i > Len(tabList) THEN <<>>
                   ELSE extractSectionsFromTab(tabList[i], i - 1, documentTitle) \o from(i + 1)
    IN  from(1)

\* C29 (as stated): for a tabbed document the result is the concatenation of
\* the Sections of every tab at every nesting depth, each tab followed by all
\* of its descendants.
C29_AsStated ==
    DocSegmented => segOut = SectionsInOrder(everyTab(CalledDoc.tabs), CalledDoc.title)

\* C29: what the code keeps. The result is the concatenation of the Sections
\* of the top-level tabs and their direct children, each top-level tab followed
\* by its children; deeper tabs contribute nothing.
C29_TwoLevels ==
    DocSegmented => segOut = SectionsInOrder(tabsToDepth(CalledDoc.tabs, 2), CalledDoc.title)

\* the tab Details under Child under Main is not segmented: the result holds
\* the Sections of Main and Child only
C29_Witness ==
    /\ DocSegmented /\ segCall.shape = "grandchild"
    /\ segCall.documentTitle = StrMyDoc /\ segCall.tabTitle = StrDoc
    /\ segBody = Body(<<HSetup, PStepOne>>)
    /\ segOut = <<Section(StrMain, StrIntro \o NL, 1, StrMain),
                  Section(StrDetails, StrMoreInfo \o NL, 2, StrChild)>>

\* a "doc" call whose drawn tab is segmented: what the result is if that tab is
\* segmented under the given label (the tab Main yields one Section)
ResultWithLabel(label) ==
    LET drawn == extractSectionsFromBody(segBody, label)
        main == <<Section(StrMain, StrIntro \o NL, 1, StrMain)>>
    IN  CASE segCall.shape = "only"  -> drawn
          [] segCall.shape = "first" -> drawn \o main
          [] OTHER                   -> main \o drawn

\* the ordinal placeholder of the drawn tab
Placeholder == StrTab \o (IF segCall.shape \in {"only", "first"} THEN <<"1">> ELSE <<"2">>)

LabelCase == DocSegmented /\ segCall.shape \in {"only", "first", "second", "child"}

\* C30 (as stated): a titled tab is labelled with its title; an untitled tab is
\* labelled with the document title when it is the only tab of the document,
\* and with its ordinal placeholder when the document has more tabs.
C30_AsStated ==
    LabelCase =>
        segOut = ResultWithLabel(
                    IF segCall.tabTitle # <<>> THEN segCall.tabTitle
                    ELSE IF segCall.shape = "only" /\ segCall.documentTitle # <<>>
                         THEN segCall.documentTitle
                    ELSE Placeholder)

\* C30: what the code keeps. The label is the tab's title, or its ordinal
\* placeholder if it has none; a label that reads 'Tab 1' is replaced by the
\* document title if there is one, however many tabs the document has.
C30_TabOneRelabelled ==
    LabelCase =>
        LET own == IF segCall.tabTitle # <<>> THEN segCall.tabTitle ELSE Placeholder
        IN  segOut = ResultWithLabel(
                        IF own = StrTab1 /\ segCall.documentTitle # <<>>
                        THEN segCall.documentTitle ELSE own)

\* the untitled first tab of a document of two tabs is labelled with the
\* document title
C30_Witness ==
    /\ DocSegmented /\ segCall.shape = "first"
    /\ segCall.tabTitle = <<>> /\ segCall.documentTitle = StrMyDoc
    /\ segBody = Body(<<HSetup, PStepOne>>)
    /\ segOut = <<Section(StrSetup, StrStepOne \o NL, 1, StrMyDoc),
                  Section(StrMain, StrIntro \o NL, 1, StrMain)>>

----------------------------------------------------------------------------
(* Properties of renaming, tables, batches and the degraded fetch *)

\* the Sections of a body before the rename step
BeforeRename(body, label) ==
    IF ~body.has \/ ~body.hasContent THEN <<>>
    ELSE LET acc == segmentLoop(SegStart, body.content, label)
         IN  segmentFallback(segmentFinal(acc), acc.allContent, label)

\* exactly one Section, titled with a placeholder label
LonePlaceholder(sections, label) ==
    Len(sections) = 1 /\ sections[1].title = label /\ startsWith(label, StrTab)

Relabelled(label) == StrDocumentSp \o SubSeq(label, Len(StrTab) + 1, Len(label))

\* the label under which the drawn tab of a "byId" call is segmented
ByIdLabel ==
    LET own == IF segCall.tabTitle # <<>> THEN segCall.tabTitle
               ELSE StrTab \o (IF segCall.shape = "only" THEN <<"1">> ELSE <<"2">>)
    IN  IF own = StrTab1 /\ segCall.documentTitle # <<>> THEN segCall.documentTitle ELSE own

\* the result of a "byId" call whose drawn tab yields the given Sections
ByIdResult(drawn) ==
    LET stamp(sections) ==
            [i \in 1..Len(sections) |-> [sections[i] EXCEPT !.sourceDocument = segCall.docName]]
    IN  stamp((IF segCall.shape = "only" THEN <<>>
               ELSE <<Section(StrMain, StrIntro \o NL, 1, StrMain)>>) \o drawn)

\* C31 (as stated): a lone Section titled with a placeholder label is retitled
\* with the source document name where it is known (processDocumentById) and
\* with the relabelled placeholder where it is not (extractSectionsFromBody);
\* all other titles are left unchanged.
C31_AsStated ==
    /\ segCall.fn = "body" =>
           LET pre == BeforeRename(segBody, segParent)
           IN  segOut = IF LonePlaceholder(pre, segParent)
                        THEN <<[pre[1] EXCEPT !.title = Relabelled(segParent)]>>
                        ELSE pre
    /\ segCall.fn = "byId" =>
           LET pre == BeforeRename(segBody, ByIdLabel)
           IN  segOut = ByIdResult(IF LonePlaceholder(pre, ByIdLabel)
                                   THEN <<[pre[1] EXCEPT !.title = segCall.docName]>>
                                   ELSE pre)

\* C31: what the code keeps. A lone Section titled with a label that begins
\* with 'Tab ' is retitled with the relabelled placeholder, also when the
\* source document name is known; all other titles are left unchanged.
C31_Relabel ==
    /\ segCall.fn = "body" =>
           LET pre == BeforeRename(segBody, segParent)
           IN  segOut = IF LonePlaceholder(pre, segParent)
                        THEN <<[pre[1] EXCEPT !.title = Relabelled(segParent)]>>
                        ELSE pre
    /\ segCall.fn = "byId" =>
           LET pre == BeforeRename(segBody, ByIdLabel)
           IN  segOut = ByIdResult(IF LonePlaceholder(pre, ByIdLabel)
                                   THEN <<[pre[1] EXCEPT !.title = Relabelled(ByIdLabel)]>>
                                   ELSE pre)

\* the untitled second tab of the listed document holds body text only: its
\* Section is titled 'Document 2' although the document name is stamped on it
C31_Witness ==
    /\ segCall.fn = "byId" /\ segCall.shape = "second" /\ segCall.tabTitle = <<>>
    /\ segCall.documentTitle = StrMyDoc
    /\ segBody = Body(<<PStepOne>>)
    /\ Len(segOut) = 2
    /\ segOut[2] = [title |-> Chars("Document 2"), content |-> StrStepOne \o NL, level |-> 1,
                    parentTab |-> Chars("Tab 2"), sourceDocument |-> StrListed]

\* the markup line of a row: '|', then ' text |' for every cell
RowMarkup(row) ==
    LET texts == RowTexts(row)
        RECURSIVE from(_)
        from(c) == IF c > Len(texts) THEN <<>>
                   ELSE <<" ">> \o texts[c] \o <<" ", "|">> \o from(c + 1)
    IN  <<"|">> \o from(1)

\* the separator row of a table of n columns
SeparatorRow(n) ==
    LET RECURSIVE dashes(_)
        dashes(k) == IF k = 0 THEN <<>> ELSE Chars(" --- |") \o dashes(k - 1)
    IN  <<"|">> \o dashes(n)

\* the markup lines of the rows from the i-th on, each ended by a newline
RECURSIVE LaterRows(_, _)
LaterRows(rows, i) ==
    IF i > Len(rows) THEN <<>> ELSE RowMarkup(rows[i]) \o NL \o LaterRows(rows, i + 1)

\* C32: a table with at least one row renders as its first row, then one
\* separator row with one '---' per cell of that first row, then its other
\* rows, and nothing else; a table without rows renders as the empty string.
C32_OneSeparator ==
    TableRendered =>
        LET rows == pureIn.table.tableRows
        IN  IF rows = <<>> THEN pureOut.text = <<>>
            ELSE pureOut.text = RowMarkup(rows[1]) \o NL
                                \o SeparatorRow(Len(rows[1])) \o NL
                                \o LaterRows(rows, 2)

\* a first row of two cells and a second row of one: the separator has two
\* '---' and is the second line
C32_Witness ==
    /\ TableRendered
    /\ pureIn.table.tableRows = <<<<Cell(<<"a", "|", "b">>), Cell(<<>>)>>,
                                  <<Cell(<<" ", "x", "\n">>)>>>>
    /\ pureOut.text = Chars("| a|b |  |\n| --- | --- |\n| x |\n")

\* C33: a batch is sequential. While member document i is being requested,
\* every earlier document has left its entries in allSections (its Sections,
\* its placeholder or its error Section), document i and the later ones have
\* left none; entries are collected in listing order.  Before the first request
\* for document i the request log is that of document i - 1, ended by a
\* response or by the failure of the last variant; afterwards it holds only
\* the failed requests made for document i so far.
C33_Sequential ==
    InBatch =>
        /\ \A k \in 1..Len(origin) : origin[k] \in 1..docIdx
        /\ \A k, l \in 1..Len(origin) : k < l => origin[k] <= origin[l]
        /\ \A j \in 1..(docIdx - 1) : \E k \in 1..Len(origin) : origin[k] = j
        /\ pc = "batch_req" =>
              /\ \A k \in 1..Len(origin) : origin[k] < docIdx
              /\ (variant = 1 /\ docIdx > 1) =>
                     Last(attempts).ok \/ LadderFailed(attempts)
              /\ variant > 1 =>
                     /\ Len(attempts) = variant - 1
                     /\ \A a \in 1..Len(attempts) :
                            ~attempts[a].ok /\ attempts[a].variant = a

\* the second document is at its second request; the first is complete
C33_Witness ==
    /\ InBatch /\ pc = "batch_req" /\ docIdx = 2 /\ variant = 2
    /\ Len(attempts) = 1 /\ ~attempts[1].ok
    /\ origin = <<1, 1>>
    /\ Len(allSections) = 2 /\ allSections[1].sourceDocument = docs[1].name

\* a single-document run on the rich path whose fetched document has no Section
NoContentRich ==
    /\ sourceType = "google-doc" /\ attempts # <<>> /\ Last(attempts).ok
    /\ extractSectionsFromGoogleDoc(Last(attempts).doc) = <<>>

\* C34: a single document without any Section ends the run in the 'no content'
\* condition: processDocument has caught the error and returned, the status
\* shown is the error 'Error: No content sections found in the document' (on
\* the degraded path 'Error: Unable to extract meaningful content...'), and
\* there are no Sections, no pages, no files and no download.
C34_NoContent ==
    /\ NoContentRich =>
           /\ pc = "done"
           /\ thrown = [has |-> TRUE, msg |-> MsgNoSectionsDoc]
           /\ status = StatusOf("error", MsgErrorPrefix \o MsgNoSectionsDoc)
           /\ allSections = <<>> /\ pages = <<>> /\ files = <<>> /\ ~downloaded
    /\ (sourceType = "google-doc" /\ thrown.msg = MsgUnableExtract) =>
           /\ pc = "done" /\ thrown.has
           /\ status = StatusOf("error", MsgErrorPrefix \o MsgUnableExtract)
           /\ allSections = <<>> /\ pages = <<>> /\ files = <<>> /\ ~downloaded

\* the document 'Empty', fetched at the first request, has no Section
C34_Witness ==
    /\ NoContentRich /\ pc = "done" /\ Len(attempts) = 1
    /\ Last(attempts).doc = DocEmpty
    /\ status.type = "error" /\ includes(status.msg, MsgNoSectionsDoc)
    /\ files = <<>> /\ ~downloaded

ListingEvents == {"list1", "list2a", "list2b", EvDriveApiDisabled}
Listed == \E i \in 1..Len(events) : events[i] \in ListingEvents
AuthErrors == {MsgAccessDeniedByUser, MsgAuthenticationFailed, MsgAuthDocs, MsgAuthDrive}

\* C35: a run that is at, or has made, a rich document request or a folder
\* listing request is signed in (a folder run also holds a token); a run whose
\* sign-in did not succeed has ended with an authentication error without any
\* document request, listing request or listed document.
C35_AuthFirst ==
    /\ (pc \in {"rich_req", "batch_req", "list"} \/ attempts # <<>> \/ Listed \/ docs # <<>>) =>
           /\ isSignedIn
           /\ sourceType = "drive-folder" => hasToken
    /\ (events # <<>> /\ events[1] \in {"rich", "folder"} /\ ~isSignedIn
        /\ pc \notin {"signin", "authwait"}) =>
           /\ pc = "done"
           /\ thrown.has /\ thrown.msg \in AuthErrors
           /\ status.type = "error"
           /\ attempts = <<>> /\ ~Listed /\ docs = <<>> /\ ~downloaded

\* the token client is missing: sign-in returns false, and the rich run ends
\* with 'Authentication required to access Google Docs' without a request
C35_Witness ==
    /\ sourceType = "google-doc" /\ pc = "done" /\ ~tokenClient /\ ~isSignedIn
    /\ events = <<"rich", "signIn">>
    /\ thrown = [has |-> TRUE, msg |-> MsgAuthDocs]
    /\ attempts = <<>>

BodySegmented == segCall.fn = "body" /\ segBody.has /\ segBody.hasContent

\* the text is found in the title or in the content of a returned Section
Kept(text) ==
    \E k \in 1..Len(segOut) : includes(segOut[k].title, text) \/ includes(segOut[k].content, text)

\* the heading content[i] is followed, before the next heading, by body text
\* with ink or by a table with a row
HasBody(content, i) ==
    \E j \in (i + 1)..Len(content) :
        /\ \A h \in (i + 1)..j : ~IsHeadingEl(content[h])
        /\ \/ IsTextEl(content[j])
           \/ /\ content[j].kind = "table"
              /\ trim(extractTableFromElement(content[j].table)) # <<>>

\* C36 (as stated): the trimmed text of every non-empty paragraph of a body,
\* heading or not, is found in the title or the content of a returned Section.
C36_AsStated ==
    BodySegmented =>
        \A i \in 1..Len(segBody.content) :
            (segBody.content[i].kind = "paragraph" /\ Seen(segBody.content[i]))
                => Kept(trim(ParaText(segBody.content[i])))

\* C36: what the code keeps. The text of every non-empty body paragraph is
\* found in the content of a returned Section, and so is the text of a heading
\* that has body text or a table with a row under it, as a title, unless it is
\* the only Section and reads like a label beginning with 'Tab ' (it is then
\* renamed); the text of a heading without them is found only when no heading
\* of the body has them (the fallback Section) or when another paragraph
\* holds the same text.
C36_BodyTextKept ==
    BodySegmented =>
        \A i \in 1..Len(segBody.content) :
            /\ IsTextEl(segBody.content[i]) =>
                  \E k \in 1..Len(segOut) :
                      includes(segOut[k].content, ParaText(segBody.content[i]) \o NL)
            /\ (IsHeadingEl(segBody.content[i]) /\ HasBody(segBody.content, i)) =>
                  \/ \E k \in 1..Len(segOut) :
                         segOut[k].title = trim(ParaText(segBody.content[i]))
                  \/ /\ Len(segOut) = 1
                     /\ trim(ParaText(segBody.content[i])) = segParent
                     /\ startsWith(segParent, StrTab)
            /\ (IsHeadingEl(segBody.content[i]) /\ ~HasBody(segBody.content, i)
                /\ Kept(trim(ParaText(segBody.content[i])))) =>
                  \/ \A h \in 1..Len(segBody.content) :
                         IsHeadingEl(segBody.content[h]) => ~HasBody(segBody.content, h)
                  \/ \E h \in 1..Len(segBody.content) :
                         /\ h # i /\ Seen(segBody.content[h])
                         /\ segBody.content[h].kind = "paragraph"
                         /\ includes(ParaText(segBody.content[h]),
                                     trim(ParaText(segBody.content[i])))

\* the heading 'Setup' is directly followed by the heading 'Details': only
\* 'Details' is returned and the text 'Setup' is nowhere
C36_Witness ==
    /\ BodySegmented /\ segParent = StrDoc
    /\ segBody = Body(<<HSetup, HDetails, PStepOne>>)
    /\ Len(segOut) = 1 /\ segOut[1].title = StrDetails
    /\ ~Kept(StrSetup)

\* positions of the non-empty heading paragraphs of a body content
HeadingPositions(content) == {i \in 1..Len(content) : IsHeadingEl(content[i])}

\* C37: for every body, extractSectionsFromBody returns at most one Section per
\* non-empty heading paragraph plus one, and every returned Section has a
\* level from 1 to 6.
C37_CountAndLevels ==
    segCall.fn = "body" =>
        /\ Len(segOut) <= Cardinality(HeadingPositions(segBody.content)) + 1
        /\ \A k \in 1..Len(segOut) : segOut[k].level \in 1..6

\* Scenario A: two headings and leading text give the most, three Sections
C37_Witness ==
    /\ segCall.fn = "body" /\ segBody = ScenarioABody
    /\ Cardinality(HeadingPositions(segBody.content)) = 2
    /\ Len(segOut) = 3
    /\ <<segOut[1].level, segOut[2].level, segOut[3].level>> = <<1, 1, 2>>

\* C38: in a batch over a non-empty listing every document whose iteration
\* has ended has added at least one entry to allSections, so that after the
\* loop the list has at least as many entries as listed documents; the
\* aggregate failure 'No content sections found in any of the documents' is
\* never thrown, also when every document failed.
C38_AtLeastOnePerDocument ==
    /\ thrown.msg # MsgNoSectionsAny
    /\ InBatch =>
          /\ pc = "batch_req" => Len(allSections) >= docIdx - 1
          /\ BatchDone =>
                /\ Len(allSections) >= Len(docs)
                /\ thrown = NoThrown /\ status.type = "success"

\* two listed documents: the first is empty and leaves its placeholder, the
\* second fails and leaves its error Section
C38_Witness ==
    /\ BatchDone /\ Len(docs) = 2
    /\ allSections = <<emptyDocSection(docs[1].name),
                       errorSection(docs[2].name, failMessage("network"))>>
    /\ status.type = "success"

\* C39: every Section collected by a batch, the placeholder of an empty
\* document and the error Section of a failed one included, carries the listed
\* name of the document it was collected for as its sourceDocument; once the
\* loop has ended its page carries the same name and its file is named with
\* that document's prefix.
C39_OwnSourceDocument ==
    InBatch =>
        /\ Len(origin) = Len(allSections)
        /\ \A k \in 1..Len(allSections) :
              allSections[k].sourceDocument = docs[origin[k]].name
        /\ BatchDone =>
              /\ Len(pages) = Len(allSections)
              /\ \A k \in 1..Len(allSections) :
                    /\ pages[k].sourceDocument = docs[origin[k]].name
                    /\ \E f \in 1..Len(files) :
                          /\ startsWith(files[f].name,
                                        cleanName(docs[origin[k]].name) \o <<"-", "-">>)
                          /\ includes(files[f].content, pages[k].content)

\* Scenario D: the fetched first document, the failed second and the third
\* each carry their own listed name
C39_Witness ==
    /\ BatchDone /\ docs = ScenarioDListing /\ origin = <<1, 2, 3>>
    /\ IsErrorSection(allSections[2])
    /\ allSections[1].sourceDocument = docs[1].name
    /\ allSections[2].sourceDocument = docs[2].name
    /\ allSections[3].sourceDocument = docs[3].name
    /\ docs[1].name # docs[2].name /\ docs[2].name # docs[3].name

\* the export URLs in the order fetchGoogleDocFallback tries them
ExportOrder == <<"degraded">> \o [v \in 1..NumExports |-> ExportName(v)]

\* the degraded fetch is under way or has ended
DegradedRun ==
    /\ sourceType = "google-doc" /\ events # <<>> /\ events[1] = "degraded"
    /\ pc \in {"fb_fetch", "download", "done"}

\* C40: the degraded fetch tries the published page before the plain-text
\* export; while it is fetching, every export tried so far was rejected and
\* nothing was produced; it ends on the first response of more than 100
\* characters, with the parse of that response (a Section, or 'Unable to
\* extract' when the parse is empty) and without a later fetch; and it fails
\* with 'Could not access document' only when every export was tried.
C40_ExportLadder ==
    DegradedRun =>
        /\ Len(events) <= Len(ExportOrder)
        /\ events = SubSeq(ExportOrder, 1, Len(events))
        /\ pc = "fb_fetch" =>
              /\ Len(events) = variant
              /\ thrown = NoThrown /\ allSections = <<>>
        /\ pc # "fb_fetch" =>
              /\ Len(events) = variant + 1
              /\ \/ /\ thrown # NoThrown /\ thrown.msg = MsgCouldNotAccess
                    /\ variant = NumExports
                    /\ allSections = <<>>
                 \/ /\ thrown # NoThrown /\ thrown.msg = MsgUnableExtract
                    /\ allSections = <<>>
                    /\ \E export \in ExportPool(variant) :
                          /\ export.length > MinContentLength
                          /\ trim(export.text) = <<>>
                 \/ /\ thrown = NoThrown
                    /\ Len(allSections) = 1
                    /\ \E export \in ExportPool(variant) :
                          /\ export.length > MinContentLength
                          /\ trim(export.text) # <<>>
                          /\ allSections[1].content = trim(export.text)

\* the published page was accepted but held no text: the run ended with
\* 'Unable to extract' and the plain-text export was never fetched
C40_Witness ==
    /\ DegradedRun /\ pc = "done"
    /\ events = <<"degraded", "fetchPub">>
    /\ thrown # NoThrown /\ thrown.msg = MsgUnableExtract

====
